---- MODULE Spec2Model ----
(***************************************************************************)
(* Debug session engine of sm-debugger (src/src/debugger.cpp).             *)
(*                                                                         *)
(* Two threads are modelled: the interpreter thread, which enters the      *)
(* engine through DebugHandler (line events) and DebugReport::ReportError  *)
(* (uncaught errors), and the network thread (debugThread), which runs the *)
(* RecvCmd handlers of DebuggerClient.  Every statement that reads or      *)
(* writes a field shared between the two threads is a step of its own, so  *)
(* the interleavings of the unsynchronised fields current_state,           *)
(* receive_walk_cmd and unload are all explored.                           *)
(*                                                                         *)
(* condition_variable::wait is modelled without spurious wake-ups: a       *)
(* waiter leaves the wait only after a notify_one has selected it.         *)
(***************************************************************************)
EXTENDS Integers, Sequences, FiniteSets, TLC

\* ---------------------------------------------------------------- bounds
MaxLine == 2        \* line numbers reported by LookupLine: 1..MaxLine
MaxFrm == 2         \* frame pointers BreakInfo.frm: 1..MaxFrm
MaxEvents == 3      \* line events of the stepping runs
MaxCmds == 2        \* client frames of the stepping runs
StopEvents == 2     \* line events and error reports of the teardown runs
StopCmds == 2       \* client frames of the teardown runs
TwoEvents == 2      \* line events of the two-session runs
TwoCmds == 3        \* client frames of the two-session runs
BpEvents == 2       \* line events of the breakpoint bookkeeping runs
BpCmds == 3         \* client frames of the breakpoint bookkeeping runs
DeliverEvents == 2  \* line events and error reports of the delivery runs
DeliverCmds == 3    \* client frames of the delivery runs
OnceEvents == 2     \* line events and error reports of the two-file runs
OnceCmds == 3       \* client frames of the two-file runs
TxEvents == 1       \* line events of the runs that watch the bytes sent
MaxPings == 1       \* pings of check_timeout on one connection
MaxSockets == 8     \* sockets the client creates in one run
MaxConns == 3       \* connections made to the server loop
MaxWrites == 2      \* writes of one client on its connection
WalkEvents == 1     \* line events of the walk-command runs
UnloadEvents == 2   \* events of the unload runs
UnloadCmds == 2     \* client frames of the unload runs
ReqEvents == 1      \* line events of the request runs
ThrowEvents == 2    \* line events and error reports of the handler-exception runs
ThrowCmds == 2      \* client frames of the handler-exception runs
CloseEvents == 2    \* line events and error reports of the connection-end runs
CloseCmds == 2      \* client frames and read completions of those runs

\* ------------------------------------------------------- enum DebugState
DebugDead == -1
DebugRun == 0
DebugBreakpoint == 1
DebugPause == 2
DebugStepIn == 3
DebugStepOver == 4
DebugStepOut == 5
DebugException == 6

\* state bytes carried by Pause / Continue / StepIn / StepOver / StepOut
WalkStates == {DebugRun, DebugPause, DebugStepIn, DebugStepOver, DebugStepOut}

\* ------------------------------------------------------------- universe
Sessions == {"A", "B"}
\* connections are accepted in this order
AcceptOrder == <<"A", "B">>

\* base names of source files, as sequences of characters
NameT == <<"t">>
NameXT == <<"x", "t">>
FileNames == {NameT, NameXT}
\* paths carried by SetBreakpoint / ClearBreakpoints / RequestFile frames
NameUT == <<"T">>
PathXT == <<"/", "x", "t">>
Paths == {NameT, NameUT, PathXT}

\* plugin contexts; "uninit" is the indeterminate value of the pointer
\* context_ of a freshly constructed DebuggerClient
Plugins == {"P1", "P2"}
FileOf(p) == IF p = "P1" THEN NameT ELSE NameXT
\* GetDebugInfo()->NumFiles() / GetFileName(i): the file table of a plugin;
\* P3 is a plugin built from two files
FileTable(p) == IF p = "P3" THEN <<NameT, NameXT>> ELSE <<FileOf(p)>>

Lines == 1..MaxLine
Frames == 1..MaxFrm

NoSession == "none"
NoFile == <<"N", "A">>

\* std::string::find(needle) != npos
Contains(hay, needle) ==
  \E i \in 0..(Len(hay) - Len(needle)) :
    \A j \in 1..Len(needle) : hay[i + j] = needle[j]

\* ------------------------------------------------------------ variables
VARIABLES
  \* session registry and per-session fields of DebuggerClient
  clients, nconn, alive,
  current_state, receive_walk_cmd, unload, context_, current_image, images,
  lastfrm_, frm_,
  break_list, files, debug_iter,
  mtx, cvWaiters, out,
  \* function-local static of DebugHook
  lastline,
  \* interpreter thread
  ipc, iev, isess, ipass, iidx, ifile, iret, hostResult,
  \* network thread
  npc, ncl, nret,
  \* events delivered / client frames dispatched so far
  nev, ncmd,
  \* history: the current call, the last DebugHook call, per-session lines
  hk, ownline, lastCall, soD,
  \* history: the SetBreakpoint / ClearBreakpoints / RequestFile frames
  \* dispatched so far
  cmds,
  \* message codec: the frame on the wire and the client's decoder
  codec,
  \* inbound byte stream of one connection and the reads made from it
  rx,
  \* the debug listener the environment calls on an uncaught error
  listener,
  \* the client extension: its socket, retry counter, timers and events
  extension,
  \* debugThread and its io_context: the operations started on it, the
  \* handlers it has run, the bytes written to and read from connections
  server

sessVars == <<alive, current_state, receive_walk_cmd, unload, context_,
              current_image, images,
              lastfrm_, frm_, break_list, files, debug_iter, mtx, cvWaiters,
              out>>
interpVars == <<ipc, iev, isess, ipass, iidx, ifile, iret, hostResult>>
netVars == <<npc, ncl, nret>>
histVars == <<hk, ownline, lastCall, soD, cmds>>
envVars == <<listener, extension, server>>
vars == <<clients, nconn, sessVars, lastline, interpVars, netVars,
          nev, ncmd, histVars, codec, rx, envVars>>

\* MAX_RETRIES and RETRY_DELAY (ms) of the client, part_000 235-236
MAX_RETRIES == 3
RETRY_DELAY == 1000

\* the client before connect(): sock is null (0) and connectionRetries 0
\* (229, 234). sockets holds the state of every Socket created so far,
\* events the 'error' and 'close' events emitted and not yet handled,
\* timers the setTimeout callbacks not yet run (due time and delay); now is
\* the clock in ms; delays and attempts record the timers scheduled and
\* the connect() calls made by timers since the user's connect
NoConnection ==
  [sock |-> 0, connectionRetries |-> 0, connected |-> FALSE,
   sockets |-> <<>>, events |-> <<>>, timers |-> <<>>, now |-> 0,
   delays |-> <<>>, attempts |-> 0, failures |-> 0]

\* debugThread before std::thread(debugThread) starts it, part_002 166:
\* impl is the definition of debugThread the build contains (1: 1882-2170
\* with TcpSession, 2: 3406-3491), pending the asynchronous operations
\* started on the io_context and not completed, done the handlers run
NotStarted ==
  [impl |-> 0, pc |-> "off", conns |-> 0, pending |-> {}, done |-> {},
   sent |-> [n \in 1..MaxConns |-> 0], read |-> [n \in 1..MaxConns |-> 0]]

NoEvent == [kind |-> "none", ctx |-> "P1", line |-> 0, frm |-> 0,
            want |-> {}, got |-> {}, base |-> [s \in Sessions |-> 0]]
NoHk == [sent |-> 0, parked |-> FALSE, raced |-> FALSE, late |-> FALSE,
         stop |-> FALSE, reason |-> "none", cs |-> 0, walks |-> 0, entry |-> DebugRun,
         hit |-> FALSE, repeat |-> FALSE, dd |-> "none", own |-> 0,
         branch |-> "none", so |-> "none"]

Init ==
  /\ clients = <<>>
  /\ nconn = 0
  /\ alive = [s \in Sessions |-> "none"]
  /\ current_state = [s \in Sessions |-> DebugRun]
  /\ receive_walk_cmd = [s \in Sessions |-> FALSE]
  /\ unload = [s \in Sessions |-> FALSE]
  /\ context_ = [s \in Sessions |-> "uninit"]
  /\ current_image = [s \in Sessions |-> "none"]
  /\ images = [s \in Sessions |-> {}]
  /\ lastfrm_ = [s \in Sessions |-> 0]
  /\ frm_ = [s \in Sessions |-> 0]
  /\ break_list = [s \in Sessions |-> [f \in {} |-> {}]]
  /\ files = [s \in Sessions |-> {}]
  /\ debug_iter = [s \in Sessions |-> FALSE]
  /\ mtx = [s \in Sessions |-> "free"]
  /\ cvWaiters = [s \in Sessions |-> {}]
  /\ out = [s \in Sessions |-> <<>>]
  /\ lastline = 0
  /\ ipc = "idle"
  /\ iev = NoEvent
  /\ isess = NoSession
  /\ ipass = 1
  /\ iidx = 1
  /\ ifile = NoFile
  /\ iret = "none"
  /\ hostResult = "none"
  /\ npc = "idle"
  /\ ncl = NoSession
  /\ nret = "none"
  /\ nev = 0
  /\ ncmd = 0
  /\ hk = NoHk
  /\ ownline = [s \in Sessions |-> 0]
  /\ lastCall = <<>>
  /\ soD = [s \in Sessions |-> 0]
  /\ cmds = <<>>
  /\ codec = [type |-> 0, fields |-> <<>>, wire |-> <<>>, cframe |-> <<>>,
              pendingBuffer |-> <<>>, list |-> <<>>, fed |-> FALSE,
              fedTo |-> 0]
  /\ rx = [frames |-> <<>>, stream |-> <<>>, pos |-> 0, reads |-> <<>>,
           calls |-> <<>>, end |-> "none"]
  /\ listener = "DebugListener"
  /\ extension = NoConnection
  /\ server = NotStarted


\* ------------------------------------------------------------- helpers
Upd(f, s, v) == [f EXCEPT ![s] = v]

Remove(seq, s) == SelectSeq(seq, LAMBDA x : x # s)

InRegistry(s) == \E i \in 1..Len(clients) : clients[i] = s

\* the interpreter thread is inside DebugHook / ReportError of session s
InCall(s) == isess = s /\ ipc \notin {"idle", "dh_scan", "crashed"}

\* a write of the network thread to current_state, receive_walk_cmd, files
\* or break_list of s that lands while a call on s has not yet reached its
\* cv.wait
Race(s) == IF InCall(s) /\ ~hk.parked THEN [hk EXCEPT !.raced = TRUE] ELSE hk

\* stopDebugging is called on s while the interpreter thread is blocked in
\* the cv.wait of s
Blocked(s) == isess = s /\ ipc = "ww_wait" /\ "interp" \in cvWaiters[s]

StopCall(s) == IF Blocked(s) THEN [hk EXCEPT !.stop = TRUE] ELSE Race(s)

\* a walk command received after the call on s sent its HasStopped
Late(s) == IF InCall(s) /\ hk.parked THEN [hk EXCEPT !.late = TRUE] ELSE Race(s)

\* std::condition_variable::notify_one
NotifyOne(s) ==
  IF cvWaiters[s] = {}
  THEN UNCHANGED cvWaiters
  ELSE \E t \in cvWaiters[s] : cvWaiters' = Upd(cvWaiters, s, cvWaiters[s] \ {t})

\* HasStopped reason passed to WaitWalkCmd by the current caller
Reason == IF iev.kind = "error" THEN "exception" ELSE "Breakpoint"

\* ============================================================ interpreter
\* history: the registered sessions an event of plugin p matches when it
\* arrives, by the context they last observed (2267, 2207) or by a file of
\* the plugin among their files (2292, 2235)
Wanting(p) ==
  {s \in Sessions : /\ InRegistry(s)
                    /\ alive[s] = "live"
                    /\ \/ context_[s] = p
                       \/ \E i \in DOMAIN FileTable(p) :
                            FileTable(p)[i] \in files[s]}

\* DebugHandler, src/src/debugger.cpp 2254-2262: a line event arrives
LineEvent(p, l, f) ==
  /\ ipc = "idle"
  /\ nev' = nev + 1
  /\ iev' = [kind |-> "line", ctx |-> p, line |-> l, frm |-> f,
             want |-> Wanting(p), got |-> {},
             base |-> [s \in Sessions |-> Len(out[s])]]
  /\ ipass' = 1
  /\ iidx' = 1
  /\ IF clients = <<>>
     THEN ipc' = "idle" /\ hostResult' = "return"
     ELSE ipc' = "dh_scan" /\ hostResult' = "none"
  /\ UNCHANGED <<clients, nconn, sessVars, lastline, isess, ifile, iret,
                 netVars, ncmd, histVars,
                 codec, rx, envVars>>

\* DebugReport::ReportError, 2196-2203: an uncaught error arrives
ErrorEvent(p) ==
  /\ ipc = "idle"
  /\ nev' = nev + 1
  /\ iev' = [kind |-> "error", ctx |-> p, line |-> 0, frm |-> 0,
             want |-> Wanting(p), got |-> {},
             base |-> [s \in Sessions |-> Len(out[s])]]
  /\ ipass' = 1
  /\ iidx' = 1
  /\ IF clients = <<>>
     THEN ipc' = "idle" /\ hostResult' = "return"
     ELSE ipc' = "dh_scan" /\ hostResult' = "none"
  /\ UNCHANGED <<clients, nconn, sessVars, lastline, isess, ifile, iret,
                 netVars, ncmd, histVars,
                 codec, rx, envVars>>

\* the test that selects a session in the current pass
\* pass 1: client->context_ == IPlugin (an indeterminate context_ may
\*         compare either way); pass 2: files.find(current_file)
Matches(s) ==
  IF ipass = 1
  THEN context_[s] = iev.ctx \/ context_[s] = "uninit"
  ELSE FileTable(iev.ctx)[ipass - 1] \in files[s]

Mismatches(s) ==
  IF ipass = 1
  THEN context_[s] # iev.ctx
  ELSE FileTable(iev.ctx)[ipass - 1] \notin files[s]

\* loop heads 2264 / 2289 (2205 / 2233): the element does not match
DhSkip ==
  /\ ipc = "dh_scan"
  /\ iidx <= Len(clients)
  /\ Mismatches(clients[iidx])
  /\ iidx' = iidx + 1
  /\ UNCHANGED <<clients, nconn, sessVars, lastline, ipc, iev, isess, ipass,
                 ifile, iret, hostResult, netVars, nev, ncmd, histVars,
                 codec, rx, envVars>>

\* end of a pass: pass 1 is followed by the passes over clients of the
\* loop over the file table, one per file (for an error report only when
\* pass 1 found nothing, which is the case whenever its end is reached);
\* the end of the last one returns to the host
DhPassEnd ==
  /\ ipc = "dh_scan"
  /\ iidx > Len(clients)
  /\ IF ipass <= Len(FileTable(iev.ctx))
     THEN /\ ipass' = ipass + 1
          /\ iidx' = 1
          /\ UNCHANGED <<ipc, hostResult>>
     ELSE /\ ipc' = "idle"
          /\ hostResult' = "return"
          /\ UNCHANGED <<ipass, iidx>>
  /\ UNCHANGED <<clients, nconn, sessVars, lastline, iev, isess, ifile, iret,
                 netVars, nev, ncmd, histVars,
                 codec, rx, envVars>>

\* 1386-1389: break_list.find(current_file) and the lookup of the line
BreakpointHit(s, f, l) ==
  /\ f \in DOMAIN break_list[s]
  /\ l \in break_list[s][f]

\* HookEntry that assigns context_ after the Dead test only
HookEntryLateContext ==
  /\ ipc = "dh_scan"
  /\ iev.kind = "line"
  /\ iidx <= Len(clients)
  /\ LET s == clients[iidx] IN
     /\ Matches(s)
     /\ isess' = s
     /\ iev' = [iev EXCEPT !.got = @ \cup {s}]
     /\ images' = Upd(images, s, images[s] \cup {iev.ctx})
     /\ current_image' = Upd(current_image, s, iev.ctx)
     /\ context_' = IF current_state[s] = DebugDead
                    THEN context_
                    ELSE Upd(context_, s, iev.ctx)
     /\ hk' = [NoHk EXCEPT !.entry = current_state[s],
                             !.hit = BreakpointHit(s, FileOf(iev.ctx), iev.line),
                             !.repeat = (lastCall = <<s, iev.ctx, iev.line>>)]
     /\ lastCall' = <<s, iev.ctx, iev.line>>
     /\ IF current_state[s] = DebugDead
        THEN ipc' = "h_ret"
        ELSE ipc' = "h_reset"
  /\ UNCHANGED <<clients, nconn, alive, current_state, receive_walk_cmd,
                 unload, lastfrm_, frm_, break_list, files, debug_iter, mtx,
                 cvWaiters, out, lastline, ipass, iidx, ifile, iret,
                 hostResult, netVars, nev, ncmd, ownline, soD, cmds,
                 codec, rx, envVars>>

\* 2271 / 2296: client->DebugHook(IPlugin, BreakInfo), up to the Dead test
\* of DebugHook (1313-1329)
HookEntry ==
  /\ ipc = "dh_scan"
  /\ iev.kind = "line"
  /\ iidx <= Len(clients)
  /\ LET s == clients[iidx] IN
     /\ Matches(s)
     /\ isess' = s
     /\ iev' = [iev EXCEPT !.got = @ \cup {s}]
     /\ images' = Upd(images, s, images[s] \cup {iev.ctx})
     /\ current_image' = Upd(current_image, s, iev.ctx)
     /\ context_' = Upd(context_, s, iev.ctx)
     /\ hk' = [NoHk EXCEPT !.entry = current_state[s],
                             !.hit = BreakpointHit(s, FileOf(iev.ctx), iev.line),
                             !.repeat = (lastCall = <<s, iev.ctx, iev.line>>)]
     /\ lastCall' = <<s, iev.ctx, iev.line>>
     /\ IF current_state[s] = DebugDead
        THEN ipc' = "h_ret"
        ELSE ipc' = "h_reset"
  /\ UNCHANGED <<clients, nconn, alive, current_state, receive_walk_cmd,
                 unload, lastfrm_, frm_, break_list, files, debug_iter, mtx,
                 cvWaiters, out, lastline, ipass, iidx, ifile, iret,
                 hostResult, netVars, nev, ncmd, ownline, soD, cmds,
                 codec, rx, envVars>>

\* return of DebugHook to the loop in DebugHandler
HookReturn ==
  /\ ipc = "h_ret"
  /\ ipc' = "dh_scan"
  /\ iidx' = iidx + 1
  /\ isess' = NoSession
  /\ UNCHANGED <<clients, nconn, sessVars, lastline, iev, ipass, ifile, iret,
                 hostResult, netVars, nev, ncmd, histVars,
                 codec, rx, envVars>>

\* HookReset that takes the session mutex for its writes
HookResetLocked ==
  /\ ipc = "h_reset"
  /\ mtx[isess] = "free"
  /\ frm_' = Upd(frm_, isess, iev.frm)
  /\ receive_walk_cmd' = Upd(receive_walk_cmd, isess, FALSE)
  /\ ipc' = "h_file"
  /\ UNCHANGED <<clients, nconn, alive, current_state, unload, context_, current_image, images,
                 lastfrm_, break_list, files, debug_iter, mtx, cvWaiters, out,
                 lastline, iev, isess, ipass, iidx, ifile, iret, hostResult,
                 netVars, nev, ncmd, histVars,
                 codec, rx, envVars>>

\* 1331-1335: cip_, frm_ and the reset of receive_walk_cmd
HookReset ==
  /\ ipc = "h_reset"
  /\ frm_' = Upd(frm_, isess, iev.frm)
  /\ receive_walk_cmd' = Upd(receive_walk_cmd, isess, FALSE)
  /\ ipc' = "h_file"
  /\ UNCHANGED <<clients, nconn, alive, current_state, unload, context_, current_image, images,
                 lastfrm_, break_list, files, debug_iter, mtx, cvWaiters, out,
                 lastline, iev, isess, ipass, iidx, ifile, iret, hostResult,
                 netVars, nev, ncmd, histVars,
                 codec, rx, envVars>>

\* HookFile without the comparison with lastline
HookFileNoDedupe ==
  /\ ipc = "h_file"
  /\ LET cur == FileOf(iev.ctx)
         cands == {f \in files[isess] : Contains(f, cur)}
     IN IF cands = {} THEN ifile' = cur ELSE ifile' \in cands
  /\ ownline' = Upd(ownline, isess, iev.line)
  /\ hk' = [hk EXCEPT !.dd = "act", !.own = ownline[isess]]
  /\ ipc' = "h_stepout"
  /\ lastline' = iev.line
  /\ UNCHANGED <<clients, nconn, sessVars, iev, isess, ipass, iidx, iret,
                 hostResult, netVars, nev, ncmd, lastCall, soD, cmds,
                 codec, rx, envVars>>

\* 1337-1376: current_file is replaced by an attached file that contains it
\* (the first one met in the iteration order of the unordered_set); then
\* the line is looked up and compared with the static lastline
HookFile ==
  /\ ipc = "h_file"
  /\ LET cur == FileOf(iev.ctx)
         cands == {f \in files[isess] : Contains(f, cur)}
     IN IF cands = {} THEN ifile' = cur ELSE ifile' \in cands
  /\ ownline' = Upd(ownline, isess, iev.line)
  /\ hk' = [hk EXCEPT !.dd = IF iev.line = lastline THEN "dedupe" ELSE "act",
                       !.own = ownline[isess]]
  /\ IF iev.line = lastline
     THEN ipc' = "h_ret" /\ UNCHANGED lastline
     ELSE ipc' = "h_stepout" /\ lastline' = iev.line
  /\ UNCHANGED <<clients, nconn, sessVars, iev, isess, ipass, iidx, iret,
                 hostResult, netVars, nev, ncmd, lastCall, soD, cmds,
                 codec, rx, envVars>>

\* 1377-1378
HookStepOut ==
  /\ ipc = "h_stepout"
  /\ IF current_state[isess] = DebugStepOut /\ frm_[isess] > lastfrm_[isess]
     THEN current_state' = Upd(current_state, isess, DebugStepIn)
     ELSE UNCHANGED current_state
  /\ ipc' = "h_branch"
  /\ UNCHANGED <<clients, nconn, alive, receive_walk_cmd, unload, context_, current_image, images,
                 lastfrm_, frm_, break_list, files, debug_iter, mtx, cvWaiters,
                 out, lastline, iev, isess, ipass, iidx, ifile, iret,
                 hostResult, netVars, nev, ncmd, histVars,
                 codec, rx, envVars>>

\* HookBranch that suspends in Pause only
HookBranchPauseOnly ==
  /\ ipc = "h_branch"
  /\ IF current_state[isess] = DebugPause
     THEN /\ ipc' = "ww_test"
          /\ iret' = "h_so"
          /\ hk' = [hk EXCEPT !.branch = "step"]
     ELSE /\ ipc' = "h_bp"
          /\ UNCHANGED <<iret, hk>>
  /\ UNCHANGED <<clients, nconn, sessVars, lastline, iev, isess, ipass, iidx,
                 ifile, hostResult, netVars, nev, ncmd, ownline,
                 lastCall, soD, cmds,
                 codec, rx, envVars>>

\* 1380-1383
HookBranch ==
  /\ ipc = "h_branch"
  /\ IF current_state[isess] \in {DebugPause, DebugStepIn}
     THEN /\ ipc' = "ww_test"
          /\ iret' = "h_so"
          /\ hk' = [hk EXCEPT !.branch = "step"]
     ELSE /\ ipc' = "h_bp"
          /\ UNCHANGED <<iret, hk>>
  /\ UNCHANGED <<clients, nconn, sessVars, lastline, iev, isess, ipass, iidx,
                 ifile, hostResult, netVars, nev, ncmd, ownline,
                 lastCall, soD, cmds,
                 codec, rx, envVars>>

\* 1386-1394
HookBp ==
  /\ ipc = "h_bp"
  /\ IF BreakpointHit(isess, ifile, iev.line)
     THEN /\ current_state' = Upd(current_state, isess, DebugBreakpoint)
          /\ ipc' = "ww_test"
          /\ iret' = "h_so"
          /\ hk' = [hk EXCEPT !.branch = "bp"]
     ELSE /\ ipc' = "h_so"
          /\ hk' = [hk EXCEPT !.branch = "nobp"]
          /\ UNCHANGED <<current_state, iret>>
  /\ UNCHANGED <<clients, nconn, alive, receive_walk_cmd, unload, context_, current_image, images,
                 lastfrm_, frm_, break_list, files, debug_iter, mtx, cvWaiters,
                 out, lastline, iev, isess, ipass, iidx, ifile, hostResult,
                 netVars, nev, ncmd, ownline, lastCall, soD, cmds,
                 codec, rx, envVars>>

\* 1398-1405
HookStepOver ==
  /\ ipc = "h_so"
  /\ IF current_state[isess] = DebugStepOver
     THEN IF frm_[isess] < lastfrm_[isess]
          THEN /\ ipc' = "h_ret"
               /\ hk' = [hk EXCEPT !.so = "deeper"]
               /\ UNCHANGED iret
          ELSE /\ ipc' = "ww_test"
               /\ iret' = "h_so2"
               /\ hk' = [hk EXCEPT !.so = "wait"]
     ELSE ipc' = "h_last" /\ UNCHANGED <<iret, hk>>
  /\ UNCHANGED <<clients, nconn, sessVars, lastline, iev, isess, ipass, iidx,
                 ifile, hostResult, netVars, nev, ncmd, ownline,
                 lastCall, soD, cmds,
                 codec, rx, envVars>>

\* 1407-1408
HookAfterStepOver ==
  /\ ipc = "h_so2"
  /\ IF current_state[isess] = DebugDead
     THEN ipc' = "h_ret"
     ELSE ipc' = "h_last"
  /\ UNCHANGED <<clients, nconn, sessVars, lastline, iev, isess, ipass, iidx,
                 ifile, iret, hostResult, netVars, nev, ncmd, histVars,
                 codec, rx, envVars>>

\* 1411-1413
HookLast ==
  /\ ipc = "h_last"
  /\ lastfrm_' = Upd(lastfrm_, isess, frm_[isess])
  /\ ipc' = "h_ret"
  /\ UNCHANGED <<clients, nconn, alive, current_state, receive_walk_cmd,
                 unload, context_, current_image, images, frm_, break_list, files, debug_iter, mtx,
                 cvWaiters, out, lastline, iev, isess, ipass, iidx, ifile,
                 iret, hostResult, netVars, nev, ncmd, histVars,
                 codec, rx, envVars>>


\* -------------------------------------------------- DebuggerClient::ReportError
\* ReportEntry without the reset of receive_walk_cmd
ReportEntryNoReset ==
  /\ ipc = "dh_scan"
  /\ iev.kind = "error"
  /\ iidx <= Len(clients)
  /\ LET s == clients[iidx] IN
     /\ Matches(s)
     /\ isess' = s
     /\ iev' = [iev EXCEPT !.got = @ \cup {s}]
     /\ hk' = [NoHk EXCEPT !.entry = current_state[s]]
  /\ ipc' = "r_state"
  /\ UNCHANGED <<clients, nconn, alive, current_state, receive_walk_cmd, unload,
                 context_, current_image, images, lastfrm_, frm_, break_list, files, debug_iter, mtx,
                 cvWaiters, out, lastline, ipass, iidx, ifile, iret,
                 hostResult, netVars, nev, ncmd, ownline, lastCall, soD, cmds,
                 codec, rx, envVars>>

\* 2210 / 2237: client->ReportError(report, iter); 1304
ReportEntry ==
  /\ ipc = "dh_scan"
  /\ iev.kind = "error"
  /\ iidx <= Len(clients)
  /\ LET s == clients[iidx] IN
     /\ Matches(s)
     /\ isess' = s
     /\ iev' = [iev EXCEPT !.got = @ \cup {s}]
     /\ receive_walk_cmd' = Upd(receive_walk_cmd, s, FALSE)
     /\ hk' = [NoHk EXCEPT !.entry = current_state[s]]
  /\ ipc' = "r_state"
  /\ UNCHANGED <<clients, nconn, alive, current_state, unload, context_, current_image, images,
                 lastfrm_, frm_, break_list, files, debug_iter, mtx, cvWaiters,
                 out, lastline, ipass, iidx, ifile, iret, hostResult,
                 netVars, nev, ncmd, ownline, lastCall, soD, cmds,
                 codec, rx, envVars>>

\* 1305-1308
ReportState ==
  /\ ipc = "r_state"
  /\ current_state' = Upd(current_state, isess, DebugException)
  /\ context_' = Upd(context_, isess, iev.ctx)
  /\ debug_iter' = Upd(debug_iter, isess, TRUE)
  /\ hk' = [hk EXCEPT !.branch = "error"]
  /\ ipc' = "ww_test"
  /\ iret' = "r_ret"
  /\ UNCHANGED <<clients, nconn, alive, receive_walk_cmd, unload,
                 current_image, images, lastfrm_,
                 frm_, break_list, files, mtx, cvWaiters, out, lastline, iev,
                 isess, ipass, iidx, ifile, hostResult, netVars, nev,
                 ncmd, ownline, lastCall, soD, cmds,
                 codec, rx, envVars>>

\* return of DebuggerClient::ReportError to DebugReport::ReportError: the
\* first pass breaks out of its loop (2211) and returns through
\* original->ReportError; the second pass goes on with the next element
ReportReturn ==
  /\ ipc = "r_ret"
  /\ isess' = NoSession
  /\ IF ipass = 1
     THEN ipc' = "idle" /\ hostResult' = "return" /\ UNCHANGED iidx
     ELSE ipc' = "dh_scan" /\ iidx' = iidx + 1 /\ UNCHANGED hostResult
  /\ UNCHANGED <<clients, nconn, sessVars, lastline, iev, ipass, ifile, iret,
                 netVars, nev, ncmd, histVars,
                 codec, rx, envVars>>

\* ------------------------------------------------- DebuggerClient::WaitWalkCmd
\* 1272-1289: test of receive_walk_cmd and send of HasStopped
WwTest ==
  /\ ipc = "ww_test"
  /\ IF ~receive_walk_cmd[isess]
     THEN /\ out' = Upd(out, isess, Append(out[isess], Reason))
          /\ hk' = [hk EXCEPT !.sent = @ + 1, !.parked = TRUE,
                                !.reason = Reason]
          /\ ipc' = "ww_lock"
     ELSE /\ ipc' = "ww_dead"
          /\ UNCHANGED <<out, hk>>
  /\ UNCHANGED <<clients, nconn, alive, current_state, receive_walk_cmd,
                 unload, context_, current_image, images, lastfrm_, frm_, break_list, files,
                 debug_iter, mtx, cvWaiters, lastline, iev, isess, ipass, iidx,
                 ifile, iret, hostResult, netVars, nev, ncmd, ownline,
                 lastCall, soD, cmds,
                 codec, rx, envVars>>

\* 1290: std::unique_lock<std::mutex> lck(mtx)
WwLock ==
  /\ ipc = "ww_lock"
  /\ mtx[isess] = "free"
  /\ mtx' = Upd(mtx, isess, "interp")
  /\ ipc' = "ww_pred"
  /\ UNCHANGED <<clients, nconn, alive, current_state, receive_walk_cmd,
                 unload, context_, current_image, images, lastfrm_, frm_, break_list, files,
                 debug_iter, cvWaiters, out, lastline, iev, isess, ipass, iidx,
                 ifile, iret, hostResult, netVars, nev, ncmd, histVars,
                 codec, rx, envVars>>

\* 1291-1293: the predicate of cv.wait, evaluated with the mutex held; when
\* it holds the wait returns and the lock is released at the end of the block
WwPred ==
  /\ ipc = "ww_pred"
  /\ IF receive_walk_cmd[isess]
     THEN /\ mtx' = Upd(mtx, isess, "free")
          /\ ipc' = "ww_dead"
     ELSE /\ ipc' = "ww_block"
          /\ UNCHANGED mtx
  /\ UNCHANGED <<clients, nconn, alive, current_state, receive_walk_cmd,
                 unload, context_, current_image, images, lastfrm_, frm_, break_list, files,
                 debug_iter, cvWaiters, out, lastline, iev, isess, ipass, iidx,
                 ifile, iret, hostResult, netVars, nev, ncmd, histVars,
                 codec, rx, envVars>>

\* 1291: cv.wait(lck) releases the mutex and blocks
WwBlock ==
  /\ ipc = "ww_block"
  /\ mtx' = Upd(mtx, isess, "free")
  /\ cvWaiters' = Upd(cvWaiters, isess, cvWaiters[isess] \cup {"interp"})
  /\ ipc' = "ww_wait"
  /\ UNCHANGED <<clients, nconn, alive, current_state, receive_walk_cmd,
                 unload, context_, current_image, images, lastfrm_, frm_, break_list, files,
                 debug_iter, out, lastline, iev, isess, ipass, iidx, ifile,
                 iret, hostResult, netVars, nev, ncmd, histVars,
                 codec, rx, envVars>>

\* 1294-1298: Dead sets unload and throws debugger_stopped; DebugHandler
\* catches it and returns (2273-2278, 2298-2301), DebugReport::ReportError
\* has no handler and lets it reach the host
WwDead ==
  /\ ipc = "ww_dead"
  /\ IF current_state[isess] = DebugDead
     THEN /\ unload' = Upd(unload, isess, TRUE)
          /\ ipc' = "idle"
          /\ isess' = NoSession
          /\ hostResult' = IF iev.kind = "line" THEN "stopped" ELSE "exception"
     ELSE /\ ipc' = iret
          /\ UNCHANGED <<unload, isess, hostResult>>
  /\ UNCHANGED <<clients, nconn, alive, current_state, receive_walk_cmd,
                 context_, current_image, images, lastfrm_, frm_, break_list, files, debug_iter, mtx,
                 cvWaiters, out, lastline, iev, ipass, iidx, ifile, iret,
                 netVars, nev, ncmd, histVars,
                 codec, rx, envVars>>

\* a call that goes on after its DebuggerClient was destroyed uses freed
\* memory; besides going on as if the object were intact it may fault
UseAfterFree ==
  /\ isess # NoSession
  /\ InCall(isess)
  /\ alive[isess] = "destroyed"
  /\ ipc' = "crashed"
  /\ UNCHANGED <<clients, nconn, sessVars, lastline, iev, isess, ipass, iidx,
                 ifile, iret, hostResult, netVars, nev, ncmd, histVars,
                 codec, rx, envVars>>


\* ================================================================ network
\* debugThread 2059-2069, addClientID 1623-1664 and the constructor with the
\* member initialisers 458-475 (context_, frm_ and debug_iter stay
\* indeterminate)
Accept(n) ==
  /\ npc = "idle"
  /\ nconn < n
  /\ LET s == AcceptOrder[nconn + 1] IN
     /\ clients' = Append(clients, s)
     /\ alive' = Upd(alive, s, "live")
  /\ nconn' = nconn + 1
  /\ UNCHANGED <<current_state, receive_walk_cmd, unload, context_, current_image, images, lastfrm_,
                 frm_, break_list, files, debug_iter, mtx, cvWaiters, out,
                 lastline, interpVars, netVars, nev, ncmd, histVars,
                 codec, rx, envVars>>

\* a frame for session s can be dispatched by RecvCmd (1537-1618): the data
\* callback found the session in clients (2113-2123)
CanRecv(s) ==
  /\ npc = "idle"
  /\ InRegistry(s)
  /\ alive[s] = "live"

\* tolower of <cctype> on the characters that occur in the names
tolower(c) == IF c = "T" THEN "t" ELSE IF c = "X" THEN "x" ELSE c

\* lowercase, 362-369: returns a lower-cased copy, the argument is const
lowercase(str) == [i \in 1..Len(str) |-> tolower(str[i])]

\* std::filesystem::path(p).filename().string(): what follows the last "/"
filename(path) ==
  LET cut == {i \in 1..Len(path) : path[i] = "/"}
      from == IF cut = {} THEN 0 ELSE CHOOSE i \in cut : \A k \in cut : k <= i
  IN SubSeq(path, from + 1, Len(path))

\* RequestFile, 1430-1438: the copy returned by lowercase(filename) is
\* dropped, filename itself is inserted
RecvDebugFile(s, path) ==
  /\ CanRecv(s)
  /\ ncmd' = ncmd + 1
  /\ LET name == filename(path)
         lowered == lowercase(name)
     IN files' = Upd(files, s, files[s] \cup {name})
  /\ hk' = Race(s)
  /\ cmds' = Append(cmds, <<"file", s, path, 0>>)
  /\ UNCHANGED <<clients, nconn, alive, current_state, receive_walk_cmd,
                 unload, context_, current_image, images, lastfrm_, frm_,
                 break_list, debug_iter, mtx, cvWaiters, out, lastline,
                 interpVars, netVars, nev, ownline, lastCall, soD,
                 codec, rx, envVars>>

\* setBreakpoint, 495-499
setBreakpoint(bl, path, line) ==
  IF path \in DOMAIN bl
  THEN [bl EXCEPT ![path] = @ \cup {line}]
  ELSE [f \in DOMAIN bl \cup {path} |-> IF f = path THEN {line} ELSE bl[f]]

\* clearBreakpoints that looks the file up with operator[]
clearBreakpointsInserting(bl, fileName) ==
  [f \in DOMAIN bl \cup {fileName} |-> IF f = fileName THEN {} ELSE bl[f]]

\* clearBreakpoints, 501-509
clearBreakpoints(bl, fileName) ==
  IF fileName \in DOMAIN bl THEN [bl EXCEPT ![fileName] = {}] ELSE bl

\* SetBreakpoint, 1480-1491: the copy returned by lowercase(filename) is
\* dropped
RecvBreakpoint(s, path, l) ==
  /\ CanRecv(s)
  /\ ncmd' = ncmd + 1
  /\ LET name == filename(path)
         lowered == lowercase(name)
     IN /\ files' = Upd(files, s, files[s] \cup {name})
        /\ break_list' = Upd(break_list, s, setBreakpoint(break_list[s], name, l))
  /\ hk' = Race(s)
  /\ cmds' = Append(cmds, <<"set", s, path, l>>)
  /\ UNCHANGED <<clients, nconn, alive, current_state, receive_walk_cmd,
                 unload, context_, current_image, images, lastfrm_, frm_,
                 debug_iter, mtx, cvWaiters, out, lastline, interpVars,
                 netVars, nev, ownline, lastCall, soD,
                 codec, rx, envVars>>

\* RecvClearBreakpoints that also detaches the file
RecvClearBreakpointsDetach(s, path) ==
  /\ CanRecv(s)
  /\ ncmd' = ncmd + 1
  /\ LET name == filename(path)
         lowered == lowercase(name)
     IN /\ break_list' = Upd(break_list, s, clearBreakpoints(break_list[s], name))
        /\ files' = Upd(files, s, files[s] \ {name})
  /\ hk' = Race(s)
  /\ cmds' = Append(cmds, <<"clear", s, path, 0>>)
  /\ UNCHANGED <<clients, nconn, alive, current_state, receive_walk_cmd,
                 unload, context_, current_image, images, lastfrm_, frm_,
                 debug_iter, mtx, cvWaiters, out, lastline,
                 interpVars, netVars, nev, ownline, lastCall, soD,
                 codec, rx, envVars>>

\* ClearBreakpoints, 1494-1503: the copy returned by lowercase(filename) is
\* dropped
RecvClearBreakpoints(s, path) ==
  /\ CanRecv(s)
  /\ ncmd' = ncmd + 1
  /\ LET name == filename(path)
         lowered == lowercase(name)
     IN break_list' = Upd(break_list, s, clearBreakpoints(break_list[s], name))
  /\ hk' = Race(s)
  /\ cmds' = Append(cmds, <<"clear", s, path, 0>>)
  /\ UNCHANGED <<clients, nconn, alive, current_state, receive_walk_cmd,
                 unload, context_, current_image, images, lastfrm_, frm_,
                 files, debug_iter, mtx, cvWaiters, out, lastline,
                 interpVars, netVars, nev, ownline, lastCall, soD,
                 codec, rx, envVars>>

\* the frames a CallStack message is built from: the captured iterator of the
\* error report (1195-1220), a fresh iterator of context_ (1222-1248), or
\* none in Run
StackOf(s) ==
  IF current_state[s] = DebugException
  THEN IF debug_iter[s] THEN "CallStack.error" ELSE "CallStack.empty"
  ELSE IF current_state[s] # DebugRun THEN "CallStack.fresh"
       ELSE "CallStack.empty"

\* a RequestCallStack received after the call on s sent its HasStopped
Asked(s) ==
  IF InCall(s) /\ hk.parked
  THEN [hk EXCEPT !.cs = @ + 1,
                  !.walks = @ + (IF StackOf(s) = "CallStack.error" THEN 1 ELSE 0)]
  ELSE IF current_state[s] = DebugException THEN Race(s) ELSE hk

\* CallStack that leaves the state in Exception
RecvCallStackNoRevert(s) ==
  /\ CanRecv(s)
  /\ ncmd' = ncmd + 1
  /\ hk' = Asked(s)
  /\ out' = Upd(out, s, Append(out[s], StackOf(s)))
  /\ UNCHANGED <<clients, nconn, alive, current_state, receive_walk_cmd, unload,
                 context_, current_image, images, lastfrm_, frm_, break_list, files, debug_iter, mtx,
                 cvWaiters, lastline, interpVars, netVars, nev, ownline,
                 lastCall, soD, cmds,
                 codec, rx, envVars>>

\* RequestCallStack, 1448-1451 and CallStack 1192-1267: in Exception the
\* captured iterator is walked and the state becomes Breakpoint
RecvCallStack(s) ==
  /\ CanRecv(s)
  /\ ncmd' = ncmd + 1
  /\ IF current_state[s] = DebugException
     THEN current_state' = Upd(current_state, s, DebugBreakpoint)
     ELSE UNCHANGED current_state
  /\ hk' = Asked(s)
  /\ out' = Upd(out, s, Append(out[s], StackOf(s)))
  /\ UNCHANGED <<clients, nconn, alive, receive_walk_cmd, unload, context_, current_image, images,
                 lastfrm_, frm_, break_list, files, debug_iter, mtx, cvWaiters,
                 lastline, interpVars, netVars, nev, ownline, lastCall,
                 soD, cmds,
                 codec, rx, envVars>>

\* the interpreter thread is inside the rendezvous of session s
InWait(s) == isess = s /\ ipc \in {"ww_lock", "ww_pred", "ww_block", "ww_wait"}

\* Pause / Continue / StepIn / StepOver / StepOut, 1441-1445 and the first
\* statement of SwitchState, 1419
RecvStateSwitch(s, st) ==
  /\ CanRecv(s)
  /\ ncmd' = ncmd + 1
  /\ current_state' = Upd(current_state, s, st)
  /\ hk' = Late(s)
  /\ soD' = IF st \in {DebugStepOver, DebugStepOut}
            THEN Upd(soD, s, IF Blocked(s) THEN frm_[s] ELSE 0)
            ELSE soD
  /\ npc' = "sw_rwc"
  /\ ncl' = s
  /\ UNCHANGED <<clients, nconn, alive, receive_walk_cmd, unload, context_, current_image, images,
                 lastfrm_, frm_, break_list, files, debug_iter, mtx, cvWaiters,
                 out, lastline, interpVars, nret, nev, ownline, lastCall, cmds,
                 codec, rx, envVars>>

\* SwitchState, 1420
SwitchFlag ==
  /\ npc = "sw_rwc"
  /\ receive_walk_cmd' = Upd(receive_walk_cmd, ncl, TRUE)
  /\ hk' = Race(ncl)
  /\ npc' = "sw_notify"
  /\ UNCHANGED <<clients, nconn, alive, current_state, unload, context_, current_image, images,
                 lastfrm_, frm_, break_list, files, debug_iter, mtx, cvWaiters,
                 out, lastline, interpVars, ncl, nret, nev, ncmd,
                 ownline, lastCall, soD, cmds,
                 codec, rx, envVars>>

\* SwitchState, 1421
SwitchNotify ==
  /\ npc = "sw_notify"
  /\ NotifyOne(ncl)
  /\ npc' = "idle"
  /\ ncl' = NoSession
  /\ UNCHANGED <<clients, nconn, alive, current_state, receive_walk_cmd,
                 unload, context_, current_image, images, lastfrm_, frm_, break_list, files,
                 debug_iter, mtx, out, lastline, interpVars, nret, nev,
                 ncmd, histVars,
                 codec, rx, envVars>>

\* StopDebugging, 1517-1521, with the first statement of stopDebugging, 1508
RecvStopDebugging(s) ==
  /\ CanRecv(s)
  /\ ncmd' = ncmd + 1
  /\ current_state' = Upd(current_state, s, DebugDead)
  /\ hk' = StopCall(s)
  /\ npc' = "st_rwc"
  /\ ncl' = s
  /\ nret' = "remove"
  /\ UNCHANGED <<clients, nconn, alive, receive_walk_cmd, unload, context_, current_image, images,
                 lastfrm_, frm_, break_list, files, debug_iter, mtx, cvWaiters,
                 out, lastline, interpVars, nev, ownline, lastCall, soD, cmds,
                 codec, rx, envVars>>

\* Disconnect, 1474-1477, with find_if and clients.erase of removeClientID,
\* 1672-1681; the erase runs ~DebuggerClient
RecvDisconnect(s) ==
  /\ CanRecv(s)
  /\ ncmd' = ncmd + 1
  /\ clients' = Remove(clients, s)
  /\ hk' = StopCall(s)
  /\ cmds' = Append(cmds, <<"recvDisconnect", s, <<>>, 0>>)
  /\ npc' = "st_state"
  /\ ncl' = s
  /\ nret' = "dtor"
  /\ UNCHANGED <<nconn, sessVars, lastline, interpVars, nev, ownline,
                 lastCall, soD,
                 codec, rx, envVars>>

\* TcpSession::close, 279-331, runs the disconnect callback, which is
\* safeRemoveClient, 1906-1955: the session is looked up in clients,
\* stopDebugging is called on it (its first statement, 1508, is taken here)
\* and removeClientID follows when stopDebugging has returned.  close is
\* called by do_read for a read of exactly five bytes ("read5", 222-233: a
\* Disconnect frame arriving alone is such a read) and for a failed read
\* ("error", 258-275).
SafeRemoveClient(s, cause) ==
  /\ CanRecv(s)
  /\ ncmd' = ncmd + 1
  /\ current_state' = Upd(current_state, s, DebugDead)
  /\ hk' = StopCall(s)
  /\ cmds' = Append(cmds, <<cause, s, <<>>, 0>>)
  /\ npc' = "st_rwc"
  /\ ncl' = s
  /\ nret' = "remove"
  /\ UNCHANGED <<clients, nconn, alive, receive_walk_cmd, unload, context_,
                 current_image, images, lastfrm_, frm_, break_list, files,
                 debug_iter, mtx, cvWaiters, out, lastline, interpVars, nev,
                 ownline, lastCall, soD, codec, rx, envVars>>

\* the data callback of debugThread, 2120-2131: a handler called by RecvCmd
\* throws a std::exception (std::bad_alloc of a string or of the send
\* buffer, std::filesystem::filesystem_error of path()); the catch calls
\* stopDebugging on the session (its first statement, 1508, is taken here)
\* and then safeRemoveClient
DataCallbackCatch(s) ==
  /\ CanRecv(s)
  /\ ncmd' = ncmd + 1
  /\ current_state' = Upd(current_state, s, DebugDead)
  /\ hk' = StopCall(s)
  /\ cmds' = Append(cmds, <<"exception", s, <<>>, 0>>)
  /\ npc' = "st_rwc"
  /\ ncl' = s
  /\ nret' = "again"
  /\ UNCHANGED <<clients, nconn, alive, receive_walk_cmd, unload, context_,
                 current_image, images, lastfrm_, frm_, break_list, files,
                 debug_iter, mtx, cvWaiters, out, lastline, interpVars, nev,
                 ownline, lastCall, soD, codec, rx, envVars>>

\* removeClientID called by recvStopDebugging, 1520 and 1672-1681
RemoveClient ==
  /\ npc = "rm_erase"
  /\ clients' = Remove(clients, ncl)
  /\ hk' = StopCall(ncl)
  /\ npc' = "st_state"
  /\ nret' = "dtor"
  /\ UNCHANGED <<nconn, sessVars, lastline, interpVars, ncl, nev, ncmd,
                 ownline, lastCall, soD, cmds,
                 codec, rx, envVars>>

\* ~DebuggerClient 477-481 calls stopDebugging: 1508
StopState ==
  /\ npc = "st_state"
  /\ current_state' = Upd(current_state, ncl, DebugDead)
  /\ hk' = Race(ncl)
  /\ npc' = "st_rwc"
  /\ UNCHANGED <<clients, nconn, alive, receive_walk_cmd, unload, context_, current_image, images,
                 lastfrm_, frm_, break_list, files, debug_iter, mtx, cvWaiters,
                 out, lastline, interpVars, ncl, nret, nev, ncmd,
                 ownline, lastCall, soD, cmds,
                 codec, rx, envVars>>

\* stopDebugging, 1509
StopFlag ==
  /\ npc = "st_rwc"
  /\ receive_walk_cmd' = Upd(receive_walk_cmd, ncl, TRUE)
  /\ hk' = Race(ncl)
  /\ npc' = "st_notify"
  /\ UNCHANGED <<clients, nconn, alive, current_state, unload, context_, current_image, images,
                 lastfrm_, frm_, break_list, files, debug_iter, mtx, cvWaiters,
                 out, lastline, interpVars, ncl, nret, nev, ncmd,
                 ownline, lastCall, soD, cmds,
                 codec, rx, envVars>>

\* stopDebugging, 1510
StopNotify ==
  /\ npc = "st_notify"
  /\ NotifyOne(ncl)
  /\ npc' = "st_lock"
  /\ UNCHANGED <<clients, nconn, alive, current_state, receive_walk_cmd,
                 unload, context_, current_image, images, lastfrm_, frm_, break_list, files,
                 debug_iter, mtx, out, lastline, interpVars, ncl, nret, nev,
                 ncmd, histVars,
                 codec, rx, envVars>>

\* stopDebugging, 1511
StopLock ==
  /\ npc = "st_lock"
  /\ mtx[ncl] = "free"
  /\ mtx' = Upd(mtx, ncl, "net")
  /\ npc' = "st_pred"
  /\ UNCHANGED <<clients, nconn, alive, current_state, receive_walk_cmd,
                 unload, context_, current_image, images, lastfrm_, frm_, break_list, files,
                 debug_iter, cvWaiters, out, lastline, interpVars, ncl, nret,
                 nev, ncmd, histVars,
                 codec, rx, envVars>>

\* stopDebugging, 1512-1514: the predicate unload; when it holds the call
\* returns to recvStopDebugging or safeRemoveClient (then removeClientID),
\* to the catch of the data callback (then safeRemoveClient, which calls
\* stopDebugging again) or to the destructor
StopPred ==
  /\ npc = "st_pred"
  /\ IF unload[ncl]
     THEN /\ mtx' = Upd(mtx, ncl, "free")
          /\ npc' = IF nret = "remove" THEN "rm_erase"
                    ELSE IF nret = "again" THEN "st_state" ELSE "dtor_end"
          /\ nret' = IF nret = "again" THEN "remove" ELSE nret
     ELSE /\ npc' = "st_block"
          /\ UNCHANGED <<mtx, nret>>
  /\ UNCHANGED <<clients, nconn, alive, current_state, receive_walk_cmd,
                 unload, context_, current_image, images, lastfrm_, frm_, break_list, files,
                 debug_iter, cvWaiters, out, lastline, interpVars, ncl,
                 nev, ncmd, histVars,
                 codec, rx, envVars>>

\* stopDebugging, 1512: cv.wait(lck) releases the mutex and blocks
StopBlock ==
  /\ npc = "st_block"
  /\ mtx' = Upd(mtx, ncl, "free")
  /\ cvWaiters' = Upd(cvWaiters, ncl, cvWaiters[ncl] \cup {"net"})
  /\ npc' = "st_wait"
  /\ UNCHANGED <<clients, nconn, alive, current_state, receive_walk_cmd,
                 unload, context_, current_image, images, lastfrm_, frm_, break_list, files,
                 debug_iter, out, lastline, interpVars, ncl, nret, nev,
                 ncmd, histVars,
                 codec, rx, envVars>>

\* end of ~DebuggerClient, 480-481: the object is gone
Destroy ==
  /\ npc = "dtor_end"
  /\ alive' = Upd(alive, ncl, "destroyed")
  /\ npc' = "idle"
  /\ ncl' = NoSession
  /\ nret' = "none"
  /\ UNCHANGED <<clients, nconn, current_state, receive_walk_cmd, unload,
                 context_, current_image, images, lastfrm_, frm_, break_list, files, debug_iter, mtx,
                 cvWaiters, out, lastline, interpVars, nev, ncmd,
                 histVars,
                 codec, rx, envVars>>

\* a thread selected by notify_one leaves cv.wait: it takes the mutex again
\* and re-evaluates its predicate (1291 for the interpreter thread, 1512 for
\* the network thread)
CvWake(t) ==
  /\ IF t = "interp"
     THEN /\ ipc = "ww_wait"
          /\ "interp" \notin cvWaiters[isess]
          /\ mtx[isess] = "free"
          /\ mtx' = Upd(mtx, isess, "interp")
          /\ ipc' = "ww_pred"
          /\ UNCHANGED npc
     ELSE /\ npc = "st_wait"
          /\ "net" \notin cvWaiters[ncl]
          /\ mtx[ncl] = "free"
          /\ mtx' = Upd(mtx, ncl, "net")
          /\ npc' = "st_pred"
          /\ UNCHANGED ipc
  /\ UNCHANGED <<clients, nconn, alive, current_state, receive_walk_cmd,
                 unload, context_, current_image, images, lastfrm_, frm_, break_list, files,
                 debug_iter, cvWaiters, out, lastline, iev, isess, ipass, iidx,
                 ifile, iret, hostResult, ncl, nret, nev, ncmd,
                 histVars,
                 codec, rx, envVars>>

\* ================================================================== codec
\* Frames of the server (CUtlBuffer builders of src/src/debugger.cpp) and of
\* the client (sendMessage / readMessages of the extension).  A byte is a
\* number in 0..255, a buffer a sequence of bytes, a string a sequence of
\* non-zero bytes (the builders take their strings through c_str()).

\* CUtlBuffer::PutInt, Buffer.writeInt32LE: 32-bit two's complement, little
\* endian
PutInt(v) ==
  LET m == IF v >= 0 THEN v ELSE -v - 1
      b(i) == (m \div (256 ^ i)) % 256
  IN [i \in 1..4 |-> IF v >= 0 THEN b(i - 1) ELSE 255 - b(i - 1)]

\* CUtlBuffer::PutString on a binary buffer: the characters and then the
\* terminating NUL that the length written before it counts
PutString(str) == str \o <<0>>

\* Buffer.readInt32LE(offset)
readInt32LE(buf, off) ==
  LET b(i) == buf[off + i]
  IN IF b(4) < 128
     THEN b(1) + 256 * b(2) + 65536 * b(3) + 16777216 * b(4)
     ELSE -((255 - b(1)) + 256 * (255 - b(2)) + 65536 * (255 - b(3))
            + 16777216 * (255 - b(4))) - 1

\* Buffer.readUInt32LE(offset), for lengths below 2^31
readUInt32LE(buf, off) ==
  buf[off + 1] + 256 * buf[off + 2] + 65536 * buf[off + 3]
  + 16777216 * buf[off + 4]

\* Buffer.readInt8(offset)
readInt8(buf, off) == IF buf[off + 1] < 128 THEN buf[off + 1] ELSE buf[off + 1] - 256

\* Buffer.toString("utf8", start, end): code points of the bytes; a byte
\* that does not start a well-formed sequence becomes U+FFFD (one-, two-
\* and three-byte forms)
RECURSIVE utf8(_)
utf8(b) ==
  IF b = <<>> THEN <<>>
  ELSE IF b[1] < 128 THEN <<b[1]>> \o utf8(Tail(b))
  ELSE IF /\ b[1] >= 194 /\ b[1] <= 223 /\ Len(b) >= 2
          /\ b[2] >= 128 /\ b[2] <= 191
       THEN <<(b[1] - 192) * 64 + (b[2] - 128)>> \o utf8(SubSeq(b, 3, Len(b)))
  ELSE IF /\ b[1] >= 225 /\ b[1] <= 236 /\ Len(b) >= 3
          /\ b[2] >= 128 /\ b[2] <= 191 /\ b[3] >= 128 /\ b[3] <= 191
       THEN <<(b[1] - 224) * 4096 + (b[2] - 128) * 64 + (b[3] - 128)>>
            \o utf8(SubSeq(b, 4, Len(b)))
  ELSE <<65533>> \o utf8(Tail(b))

\* Buffer.toString("utf16le", start, end): one code unit per pair of bytes
utf16le(b) == [i \in 1..(Len(b) \div 2) |-> b[2 * i - 1] + 256 * b[2 * i]]

\* the bytes of buf in [start, end), end clamped to the length
Slice(buf, start, end) ==
  SubSeq(buf, start + 1, IF end < Len(buf) THEN end ELSE Len(buf))

\* fields of a message: integers and strings
IntF(v) == [k |-> "int", v |-> v]
StrF(str) == [k |-> "str", v |-> str]

\* buffer.PutInt(x) for an integer; buffer.PutInt(s.size() + 1) followed by
\* buffer.PutString(s.c_str()) for a string
PutField(f) ==
  IF f.k = "int" THEN PutInt(f.v) ELSE PutInt(Len(f.v) + 1) \o PutString(f.v)

RECURSIVE PutFields(_)
PutFields(fs) ==
  IF fs = <<>> THEN <<>> ELSE PutField(Head(fs)) \o PutFields(Tail(fs))

\* a builder whose length field counts the type byte as well
ServerFrameCountingType(type, fields) ==
  LET body == <<type>> \o PutFields(fields)
      TellPut == 4 + Len(body)
  IN PutInt(TellPut - 4) \o body

\* PutUnsignedInt(0); PutChar(type); the fields; then
\* *(uint32_t *)buffer.Base() = buffer.TellPut() - 5
ServerFrame(type, fields) ==
  LET body == <<type>> \o PutFields(fields)
      TellPut == 4 + Len(body)
  IN PutInt(TellPut - 5) \o body

\* enum MessageType, the types the server sends
CallStack == 8
HasStopped == 11
SetVariable == 17
Variables == 19
Evaluate == 21
\* and two of the types the client sends
Continue == 6
RequestCallStack == 7

\* WaitWalkCmd, 1277-1284: the reason twice, then the text
HasStoppedFields(reason, text) == <<StrF(reason), StrF(reason), StrF(text)>>

\* CallStack, 1253-1262
RECURSIVE CallStackFrames(_)
CallStackFrames(callStack) ==
  IF callStack = <<>> THEN <<>>
  ELSE <<StrF(Head(callStack).name), StrF(Head(callStack).filename),
         IntF(Head(callStack).line + 1)>> \o CallStackFrames(Tail(callStack))

CallStackFields(callStack) ==
  <<IntF(Len(callStack))>> \o CallStackFrames(callStack)

\* evaluateVar, 970-978, and the body of the loop of 1173-1183
VariableFields(var) ==
  <<StrF(var.name), StrF(var.value), StrF(var.type), IntF(0)>>

RECURSIVE VariableList(_)
VariableList(vs) ==
  IF vs = <<>> THEN <<>> ELSE VariableFields(Head(vs)) \o VariableList(Tail(vs))

\* sendVariables, 1169-1183
VariablesFields(scope, vs) ==
  <<StrF(scope), IntF(Len(vs))>> \o VariableList(vs)

\* setVariable, 1099-1100
SetVariableFields(success) == <<IntF(IF success THEN 1 ELSE 0)>>

\* sendMessage of the client: header of 5 bytes (6 with the extra byte), the
\* payload, then the length of everything after the length field
sendMessage(messageType, payload, extraByte) ==
  LET header == IF extraByte = -1
                THEN <<0, 0, 0, 0, messageType>>
                ELSE <<0, 0, 0, 0, messageType, extraByte>>
      fullMessage == header \o payload
  IN PutInt(Len(fullMessage) - 4) \o SubSeq(fullMessage, 5, Len(fullMessage))

\* new Message(type, offset, size, buffer)
Message(type, offset, size, buffer) ==
  [type |-> type, offset |-> offset, size |-> size, buffer |-> buffer]

\* the while loop of readMessages
RECURSIVE readLoop(_, _)
readLoop(pending, list) ==
  IF Len(pending) >= 5
  THEN LET msglen == readUInt32LE(pending, 0)
           msgtype == readInt8(pending, 4)
           offset == 5
       IN IF msglen <= Len(pending) - offset
          THEN readLoop(SubSeq(pending, offset + msglen + 1, Len(pending)),
                        Append(list, Message(msgtype, offset, msglen, pending)))
          ELSE [list |-> list, pendingBuffer |-> pending]
  ELSE [list |-> list, pendingBuffer |-> pending]

\* readMessages(buffer) with the module-level pendingBuffer
readMessages(pendingBuffer, buffer) == readLoop(pendingBuffer \o buffer, <<>>)

\* Message.readInt: the value and the message with its offset advanced
readInt(m) ==
  [value |-> readInt32LE(m.buffer, m.offset),
   next |-> [m EXCEPT !.offset = @ + 4]]

\* Message.readString
readString(m) ==
  LET r == readInt(m)
      ucs2 == r.value < 0
      num == IF ucs2 THEN -r.value ELSE r.value
      off == r.next.offset
      width == IF ucs2 THEN num * 2 ELSE num
      raw == IF ucs2 THEN utf16le(Slice(m.buffer, off, off + width))
                     ELSE utf8(Slice(m.buffer, off, off + width))
      str == IF raw # <<>> /\ raw[Len(raw)] = 0
             THEN SubSeq(raw, 1, Len(raw) - 1)
             ELSE raw
  IN [value |-> str, next |-> [m EXCEPT !.offset = off + width]]

\* the fields of a message read back in the order they were written
RECURSIVE readBack(_, _)
readBack(m, kinds) ==
  IF kinds = <<>> THEN <<>>
  ELSE LET r == IF Head(kinds) = "int" THEN readInt(m) ELSE readString(m)
       IN <<r.value>> \o readBack(r.next, Tail(kinds))

\* values the builders are given
Chars == {65, 233}
Strs == {<<>>} \cup {<<c>> : c \in Chars} \cup {<<c, d>> : c \in Chars, d \in Chars}
LineNos == {0, 255}
StackFrames == [name : {<<65>>, <<233>>}, filename : {<<>>, <<65, 65>>}, line : LineNos]
Symbols == [name : {<<65>>}, value : Strs, type : {<<>>, <<65>>}]

\* the server sends a frame of the given type and fields
Emit(type, fields) ==
  /\ codec.wire = <<>>
  /\ codec' = [codec EXCEPT !.type = type, !.fields = fields,
                            !.wire = ServerFrame(type, fields),
                            !.list = <<>>, !.fed = FALSE]
  /\ UNCHANGED <<clients, nconn, sessVars, lastline, interpVars, netVars,
                 nev, ncmd, histVars, rx, envVars>>

SendHasStopped ==
  \E reason \in Strs, text \in Strs :
    Emit(HasStopped, HasStoppedFields(reason, text))

SendCallStack ==
  \E callStack \in {<<>>} \cup {<<f>> : f \in StackFrames}
                   \cup {<<f, g>> : f \in StackFrames, g \in StackFrames} :
    Emit(CallStack, CallStackFields(callStack))

SendVariables ==
  \E scope \in {<<65>>, <<233>>}, vs \in {<<>>} \cup {<<v>> : v \in Symbols} :
    Emit(Variables, VariablesFields(scope, vs))

SendEvaluate ==
  \E var \in Symbols : Emit(Evaluate, VariableFields(var))

SendSetVariable ==
  \E success \in BOOLEAN : Emit(SetVariable, SetVariableFields(success))

\* the data handler of the client passes the received bytes to readMessages
ReadMessages ==
  /\ codec.wire # <<>>
  /\ codec.fedTo = 0
  /\ LET r == readMessages(codec.pendingBuffer, codec.wire)
     IN codec' = [codec EXCEPT !.wire = <<>>, !.list = r.list,
                               !.pendingBuffer = r.pendingBuffer,
                               !.fed = TRUE]
  /\ UNCHANGED <<clients, nconn, sessVars, lastline, interpVars, netVars,
                 nev, ncmd, histVars, rx, envVars>>

\* the transport hands the frame over in pieces: the data handler passes the
\* next n bytes to readMessages, whose results add up in list
ReadChunk ==
  /\ codec.wire # <<>>
  /\ \E n \in 1..(Len(codec.wire) - codec.fedTo) :
       /\ codec.fedTo + n < Len(codec.wire) \/ codec.fedTo > 0
       /\ LET chunk == SubSeq(codec.wire, codec.fedTo + 1, codec.fedTo + n)
              r == readMessages(codec.pendingBuffer, chunk)
              done == codec.fedTo + n = Len(codec.wire)
          IN codec' = [codec EXCEPT
                         !.wire = IF done THEN <<>> ELSE @,
                         !.fedTo = IF done THEN 0 ELSE @ + n,
                         !.list = @ \o r.list,
                         !.pendingBuffer = r.pendingBuffer,
                         !.fed = done]
  /\ UNCHANGED <<clients, nconn, sessVars, lastline, interpVars, netVars,
                 nev, ncmd, histVars, rx, envVars>>

\* the client sends a frame
ClientSend ==
  \E messageType \in {Continue, RequestCallStack},
     payload \in {<<>>, <<1, 0, 0, 0>>}, extraByte \in {-1, 0} :
    /\ codec' = [codec EXCEPT
                   !.cframe = sendMessage(messageType, payload, extraByte)]
    /\ UNCHANGED <<clients, nconn, sessVars, lastline, interpVars, netVars,
                   nev, ncmd, histVars, rx, envVars>>

\* ==================================================== inbound byte stream
\* What the server does with the bytes a client writes: do_read hands every
\* completed read to the data callback of debugThread, which passes it to
\* RecvCmd of the session.  The handlers run to completion here; no
\* interpreter thread is inside a call, so notify_one finds no waiter.

MaxRxFrames == 2    \* frames the client writes on one connection

\* enum MessageType, 382-408: the requests RecvCmd has a case for
RequestFile == 1
StopDebugging == 4
Pause == 5
ClearBreakpoints == 9
SetBreakpoint == 10
StepOver == 13
StepIn == 14
StepOut == 15
RequestSetVariable == 16
RequestVariables == 18
RequestEvaluate == 20
Disconnect == 22

\* the cases of the switch in RecvCmd, 1546-1615
HandledTypes ==
  {RequestFile, Pause, Continue, StepIn, StepOver, StepOut, RequestCallStack,
   RequestVariables, RequestEvaluate, Disconnect, ClearBreakpoints,
   SetBreakpoint, StopDebugging, RequestSetVariable}

\* the byte of a character and the character of a byte, for the characters
\* that occur in the names; any other byte reads as "?"
Code(c) ==
  CASE c = "t" -> 116 [] c = "x" -> 120 [] c = "/" -> 47 [] c = "T" -> 84
    [] c = "v" -> 118 [] OTHER -> 63

CharOf(b) ==
  CASE b = 116 -> "t" [] b = 120 -> "x" [] b = 47 -> "/" [] b = 84 -> "T"
    [] b = 118 -> "v" [] OTHER -> "?"

\* Buffer.from(str, "binary")
Bytes(str) == [i \in 1..Len(str) |-> Code(str[i])]

\* writeInt of the client
writeInt(value) == PutInt(value)

\* writeString of the client: the length counts the NUL that follows
writeString(str) == PutInt(Len(str) + 1) \o Bytes(str) \o <<0>>

\* the send functions of the client
\* enum MessageType of the client (part_000 15-40) and of the server
\* (382-408), in the order of their declarations
ClientMessageType ==
  <<"Diagnostics", "RequestFile", "File", "StartDebugging", "StopDebugging",
    "Pause", "Continue", "RequestCallStack", "CallStack", "ClearBreakpoints",
    "SetBreakpoint", "HasStopped", "HasContinued", "StepOver", "StepIn",
    "StepOut", "RequestSetVariable", "SetVariable", "RequestVariables",
    "Variables", "RequestEvaluate", "Evaluate", "Disconnect",
    "TotalMessages">>
ServerMessageType ==
  <<"Diagnostics", "RequestFile", "File", "StartDebugging", "StopDebugging",
    "Pause", "Continue", "RequestCallStack", "CallStack", "ClearBreakpoints",
    "SetBreakpoint", "HasStopped", "HasContinued", "StepOver", "StepIn",
    "StepOut", "RequestSetVariable", "SetVariable", "RequestVariables",
    "Variables", "RequestEvaluate", "Evaluate", "Disconnect",
    "TotalMessages">>

\* the number an enumeration gives a name: 0 for the first enumerator and
\* one more for each that follows
EnumValue(enum, name) == (CHOOSE i \in DOMAIN enum : enum[i] = name) - 1

sendPause == sendMessage(EnumValue(ClientMessageType, "Pause"), <<>>, 2)
sendContinue == sendMessage(EnumValue(ClientMessageType, "Continue"), <<>>, 0)
sendStepIn == sendMessage(EnumValue(ClientMessageType, "StepIn"), <<>>, 3)
\* sendStepOver with the state byte of sendStepOut
sendStepOverAsOut ==
  sendMessage(EnumValue(ClientMessageType, "StepOver"), <<>>, 5)
sendStepOver == sendMessage(EnumValue(ClientMessageType, "StepOver"), <<>>, 4)
sendStepOut == sendMessage(EnumValue(ClientMessageType, "StepOut"), <<>>, 5)
sendRequestCallStack == sendMessage(RequestCallStack, <<>>, -1)
sendDisconnect == sendMessage(Disconnect, <<>>, -1)
sendStartDebugging(name) == sendMessage(RequestFile, writeString(name), -1)
sendClearBreakpoints(pathname) ==
  sendMessage(ClearBreakpoints, writeString(pathname), -1)
sendSetBreakpoint(id, pathname, line) ==
  sendMessage(SetBreakpoint,
              writeString(pathname) \o writeInt(line) \o writeInt(id), -1)
sendRequestSetVariable(variable, value, index) ==
  sendMessage(RequestSetVariable,
              writeString(variable) \o writeString(value) \o writeInt(index),
              -1)
sendRequestVariables(path) ==
  sendMessage(RequestVariables, writeString(path), -1)
sendRequestEvaluate(path, frameId) ==
  sendMessage(RequestEvaluate, writeString(path) \o writeInt(frameId), -1)

\* a well-formed frame of a type RecvCmd has no case for (HasStopped is a
\* type only the server sends)
UnknownFrame(payload) == PutInt(Len(payload) + 1) \o <<HasStopped>> \o payload

\* payloads of the unknown frames: none, one byte, and six bytes that read
\* as a frame themselves
UnknownPayloads == {<<>>, <<7>>, sendPause}

RxFrames ==
  {sendPause, sendContinue, sendRequestCallStack, sendDisconnect,
   sendStartDebugging(PathXT), sendClearBreakpoints(NameT),
   sendSetBreakpoint(1, NameT, 1)}
  \cup {UnknownFrame(p) : p \in UnknownPayloads}

IsUnknown(frame) == frame[5] \notin HandledTypes

\* the requests of a client that expect a response: the call stack, the
\* variables of v and of x, the value of v and of x, and v := t; the image
\* of the plugin has a symbol v in scope and no symbol x
NameV == <<"v">>
NameX == <<"x">>
ReqFrames ==
  {sendContinue, sendRequestCallStack,
   sendRequestVariables(NameV), sendRequestVariables(NameX),
   sendRequestEvaluate(NameV, 0), sendRequestEvaluate(NameX, 0),
   sendRequestSetVariable(NameV, NameT, 0)}

\* SmxV1Image::GetVariable(name, cip_, sym) on the image of the plugin
GetVariable(name) == name = NameV

\* the response a request frame asks for
Expected(frame) ==
  CASE frame[5] = RequestCallStack -> "CallStack"
    [] frame[5] = RequestVariables -> "Variables"
    [] frame[5] = RequestEvaluate -> "Evaluate"
    [] frame[5] = RequestSetVariable -> "SetVariable"
    [] OTHER -> "none"

\* the type of a frame sent to the client
TypeOf(o) ==
  IF o \in {"CallStack.error", "CallStack.empty", "CallStack.fresh"}
  THEN "CallStack" ELSE o

RECURSIVE Concat(_)
Concat(fs) == IF fs = <<>> THEN <<>> ELSE Head(fs) \o Concat(Tail(fs))

\* the fields of session s that the handlers of RecvCmd read and write, the
\* handler calls made so far and how the decoding ended: "none", "close"
\* (TcpSession::close), "recvStopDebugging", "recvDisconnect", or
\* "undefined" when a Get runs past the bytes of the read
RxState(s) ==
  [current_state |-> current_state[s],
   receive_walk_cmd |-> receive_walk_cmd[s],
   files |-> files[s], break_list |-> break_list[s],
   debug_iter |-> debug_iter[s], out |-> out[s],
   current_image |-> current_image[s],
   calls |-> rx.calls, end |-> rx.end]

\* the session as its constructor leaves it
RxState0 ==
  [current_state |-> DebugRun, receive_walk_cmd |-> FALSE, files |-> {},
   break_list |-> [f \in {} |-> {}], debug_iter |-> FALSE, out |-> <<>>,
   current_image |-> "none",
   calls |-> <<>>, end |-> "none"]

\* one handler call: the handler, its string argument and its integers
Call(h, str, a, b) == [h |-> h, str |-> str, a |-> a, b |-> b]

HasBytes(buf, get, n) == get + n <= Len(buf)

\* CUtlBuffer::GetString(dst, strlen): the characters before the NUL among
\* the strlen bytes at get
GetString(buf, get, strlen) ==
  LET nul == {i \in 1..strlen : buf[get + i] = 0}
      n == IF nul = {} THEN strlen
           ELSE (CHOOSE i \in nul : \A k \in nul : i <= k) - 1
  IN [i \in 1..n |-> CharOf(buf[get + i])]

\* GetInt() for the length and GetString(dst, strlen), as every handler
\* with a string argument reads it
StrArg(buf, get) ==
  IF ~HasBytes(buf, get, 4)
  THEN [ok |-> FALSE, str |-> <<>>, next |-> get]
  ELSE LET strlen == readInt32LE(buf, get)
       IN IF strlen < 0 \/ ~HasBytes(buf, get + 4, strlen)
          THEN [ok |-> FALSE, str |-> <<>>, next |-> get]
          ELSE [ok |-> TRUE, str |-> GetString(buf, get + 4, strlen),
                next |-> get + 4 + strlen]

\* GetInt()
IntArg(buf, get) ==
  IF HasBytes(buf, get, 4)
  THEN [ok |-> TRUE, v |-> readInt32LE(buf, get), next |-> get + 4]
  ELSE [ok |-> FALSE, v |-> 0, next |-> get]

\* CallStack() on the record
StackOfState(st) ==
  IF st.current_state = DebugException
  THEN IF st.debug_iter THEN "CallStack.error" ELSE "CallStack.empty"
  ELSE IF st.current_state # DebugRun THEN "CallStack.fresh"
       ELSE "CallStack.empty"

\* the handlers 1430-1534 on the record, with sendVariables 1107-1189,
\* evaluateVar 953-985 and setVariable 1033-1105: outside Run evaluateVar
\* and setVariable call GetVariable through current_image.get(), a null
\* pointer until the first DebugHook
ApplyCall(st, c) ==
  LET st1 == [st EXCEPT !.calls = Append(@, c)]
      name == filename(c.str)
      lowered == lowercase(name)
      run == st.current_state = DebugRun
      null == st.current_image = "none"
  IN CASE c.h = "RecvStateSwitch" ->
            [st1 EXCEPT !.current_state = c.a, !.receive_walk_cmd = TRUE]
       [] c.h = "RecvDebugFile" ->
            [st1 EXCEPT !.files = @ \cup {name}]
       [] c.h = "recvBreakpoint" ->
            [st1 EXCEPT !.files = @ \cup {name},
                        !.break_list = setBreakpoint(@, name, c.a)]
       [] c.h = "recvClearBreakpoints" ->
            [st1 EXCEPT !.break_list = clearBreakpoints(@, name)]
       [] c.h = "RecvCallStack" ->
            [st1 EXCEPT !.out = Append(@, StackOfState(st)),
                        !.current_state =
                           IF @ = DebugException THEN DebugBreakpoint ELSE @]
       [] c.h \in {"recvDisconnect", "recvStopDebugging"} ->
            [st1 EXCEPT !.end = c.h]
       [] c.h = "recvRequestVariables" ->
            IF ~run /\ ~null
            THEN [st1 EXCEPT !.out = Append(@, "Variables")]
            ELSE st1
       [] c.h = "recvRequestEvaluate" ->
            IF run THEN st1
            ELSE IF null THEN [st1 EXCEPT !.end = "undefined"]
            ELSE IF GetVariable(c.str)
                 THEN [st1 EXCEPT !.out = Append(@, "Evaluate")]
                 ELSE st1
       [] c.h = "recvRequestSetVariable" ->
            IF ~run /\ null THEN [st1 EXCEPT !.end = "undefined"]
            ELSE [st1 EXCEPT !.out = Append(@, "SetVariable")]
       [] OTHER -> st1

Undefined(st) == [st EXCEPT !.end = "undefined"]

\* RecvCmd, 1536-1618: msg_len is read and not used, the switch has no
\* default, and each handler reads its arguments where the header ended
RECURSIVE RecvCmdLoop(_, _, _)
RecvCmdLoop(buf, get, st) ==
  IF get >= Len(buf) \/ st.end # "none" THEN st
  ELSE IF ~HasBytes(buf, get, 5) THEN Undefined(st)
  ELSE
    LET type == buf[get + 5]
        body == get + 5
        s1 == StrArg(buf, body)
        i1 == IntArg(buf, s1.next)
        i2 == IntArg(buf, i1.next)
        s2 == StrArg(buf, s1.next)
        i3 == IntArg(buf, s2.next)
    IN CASE type \in {Pause, Continue, StepIn, StepOver, StepOut} ->
              IF HasBytes(buf, body, 1)
              THEN RecvCmdLoop(buf, body + 1,
                     ApplyCall(st, Call("RecvStateSwitch", <<>>,
                                        buf[body + 1], 0)))
              ELSE Undefined(st)
         [] type = RequestFile ->
              IF s1.ok
              THEN RecvCmdLoop(buf, s1.next,
                     ApplyCall(st, Call("RecvDebugFile", s1.str, 0, 0)))
              ELSE Undefined(st)
         [] type = RequestCallStack ->
              RecvCmdLoop(buf, body,
                ApplyCall(st, Call("RecvCallStack", <<>>, 0, 0)))
         [] type = RequestVariables ->
              IF s1.ok
              THEN RecvCmdLoop(buf, s1.next,
                     ApplyCall(st, Call("recvRequestVariables", s1.str, 0, 0)))
              ELSE Undefined(st)
         [] type = RequestEvaluate ->
              IF s1.ok /\ i1.ok
              THEN RecvCmdLoop(buf, i1.next,
                     ApplyCall(st, Call("recvRequestEvaluate", s1.str,
                                        i1.v, 0)))
              ELSE Undefined(st)
         [] type = Disconnect ->
              ApplyCall(st, Call("recvDisconnect", <<>>, 0, 0))
         [] type = ClearBreakpoints ->
              IF s1.ok
              THEN RecvCmdLoop(buf, s1.next,
                     ApplyCall(st, Call("recvClearBreakpoints", s1.str, 0, 0)))
              ELSE Undefined(st)
         [] type = SetBreakpoint ->
              IF s1.ok /\ i1.ok /\ i2.ok
              THEN RecvCmdLoop(buf, i2.next,
                     ApplyCall(st, Call("recvBreakpoint", s1.str,
                                        i1.v, i2.v)))
              ELSE Undefined(st)
         [] type = StopDebugging ->
              ApplyCall(st, Call("recvStopDebugging", <<>>, 0, 0))
         [] type = RequestSetVariable ->
              IF s1.ok /\ s2.ok /\ i3.ok
              THEN RecvCmdLoop(buf, i3.next,
                     ApplyCall(st, Call("recvRequestSetVariable",
                                        s1.str, i3.v, Len(s2.str))))
              ELSE Undefined(st)
         [] OTHER -> RecvCmdLoop(buf, body, st)

\* the completion handler of do_read, 207-249, for a read without error: a
\* read of exactly five bytes closes the connection, any other read goes to
\* the data callback and from there to RecvCmd
do_read(st, data) ==
  IF Len(data) = 5
  THEN [st EXCEPT !.out = Append(@, "DisconnectAck"), !.end = "close"]
  ELSE RecvCmdLoop(data, 0, st)

\* every frame arrives whole in a read of its own
RECURSIVE EachWhole(_, _)
EachWhole(fs, st) ==
  IF fs = <<>> \/ st.end # "none" THEN st
  ELSE EachWhole(Tail(fs), do_read(st, Head(fs)))

\* the client writes frames of the set F, one after the other
ClientWrites(F) ==
  /\ InRegistry("A")
  /\ rx.stream = <<>>
  /\ \E n \in 1..MaxRxFrames : \E fs \in [1..n -> F] :
       rx' = [rx EXCEPT !.frames = fs, !.stream = Concat(fs)]
  /\ UNCHANGED <<clients, nconn, sessVars, lastline, interpVars, netVars,
                 nev, ncmd, histVars, codec, envVars>>

ClientWrite == ClientWrites(RxFrames)

ClientRequests == ClientWrites(ReqFrames)

\* a read of session s completes with the next length bytes of the stream,
\* while the interpreter thread is outside the session or blocked in its
\* cv.wait, which the notify_one of SwitchState ends.
\* close() runs the disconnect callback, safeRemoveClient (1906-1955):
\* stopDebugging, then removeClientID; recvStopDebugging does the same;
\* recvDisconnect erases the session, whose destructor calls stopDebugging.
DoRead(s) ==
  /\ CanRecv(s)
  /\ ipc = "idle" \/ Blocked(s)
  /\ rx.end = "none"
  /\ rx.pos < Len(rx.stream)
  /\ \E length \in 1..(Len(rx.stream) - rx.pos) :
       LET data == SubSeq(rx.stream, rx.pos + 1, rx.pos + length)
           st == do_read(RxState(s), data)
           stop == st.end \in {"close", "recvStopDebugging"}
           erase == st.end = "recvDisconnect"
       IN /\ rx' = [rx EXCEPT !.pos = @ + length,
                             !.reads = Append(@, length),
                             !.calls = st.calls, !.end = st.end]
          /\ current_state' =
               Upd(current_state, s,
                   IF stop THEN DebugDead ELSE st.current_state)
          /\ receive_walk_cmd' = Upd(receive_walk_cmd, s, st.receive_walk_cmd)
          /\ files' = Upd(files, s, st.files)
          /\ break_list' = Upd(break_list, s, st.break_list)
          /\ out' = Upd(out, s, st.out)
          /\ cvWaiters' =
               IF \E i \in (Len(rx.calls) + 1)..Len(st.calls) :
                    st.calls[i].h = "RecvStateSwitch"
               THEN Upd(cvWaiters, s, cvWaiters[s] \ {"interp"})
               ELSE cvWaiters
          /\ clients' = IF erase THEN Remove(clients, s) ELSE clients
          /\ npc' = IF stop THEN "st_rwc" ELSE IF erase THEN "st_state"
                    ELSE npc
          /\ ncl' = IF stop \/ erase THEN s ELSE ncl
          /\ nret' = IF stop THEN "remove" ELSE IF erase THEN "dtor" ELSE nret
  /\ ncmd' = ncmd + 1
  /\ UNCHANGED <<nconn, alive, unload, context_, current_image, images,
                 lastfrm_, frm_, debug_iter, mtx, lastline,
                 interpVars, nev, histVars, codec, envVars>>

\* ========================================================== specification
InterpStep ==
  \/ DhSkip \/ DhPassEnd \/ HookEntry \/ HookReturn \/ HookReset \/ HookFile
  \/ HookStepOut \/ HookBranch \/ HookBp \/ HookStepOver
  \/ HookAfterStepOver \/ HookLast \/ ReportEntry \/ ReportState
  \/ ReportReturn \/ WwTest \/ WwLock \/ WwPred \/ WwBlock \/ WwDead
  \/ CvWake("interp")

NetStep ==
  \/ SwitchFlag \/ SwitchNotify \/ RemoveClient \/ StopState \/ StopFlag
  \/ StopNotify \/ StopLock \/ StopPred \/ StopBlock \/ Destroy
  \/ CvWake("net")

\* Stepping and breakpoints of one session: one client, one plugin.
Next ==
  \/ nev < MaxEvents /\ \E l \in Lines, f \in Frames : LineEvent("P1", l, f)
  \/ DhSkip \/ DhPassEnd \/ HookEntry \/ HookReturn \/ HookReset \/ HookFile
  \/ HookStepOut \/ HookBranch \/ HookBp \/ HookStepOver
  \/ HookAfterStepOver \/ HookLast
  \/ WwTest \/ WwLock \/ WwPred \/ WwBlock \/ WwDead
  \/ Accept(1)
  \/ ncmd < MaxCmds /\ \E f \in FileNames, l \in Lines : RecvBreakpoint("A", f, l)
  \/ ncmd < MaxCmds /\ \E st \in WalkStates : RecvStateSwitch("A", st)
  \/ SwitchFlag \/ SwitchNotify
  \/ CvWake("interp")

Spec == Init /\ [][Next]_vars

\* Teardown of one session: StopDebugging and Disconnect against line events
\* and error reports.
NextStop ==
  \/ nev < StopEvents /\ \E l \in Lines : LineEvent("P1", l, 1)
  \/ nev < StopEvents /\ ErrorEvent("P1")
  \/ DhSkip \/ DhPassEnd \/ HookEntry \/ HookReturn \/ HookReset \/ HookFile
  \/ HookStepOut \/ HookBranch \/ HookBp \/ HookStepOver \/ HookLast
  \/ ReportEntry \/ ReportState \/ ReportReturn
  \/ WwTest \/ WwLock \/ WwPred \/ WwBlock \/ WwDead
  \/ UseAfterFree
  \/ Accept(1)
  \/ ncmd < StopCmds /\ RecvBreakpoint("A", NameT, 1)
  \/ ncmd < StopCmds /\ \E st \in {DebugRun, DebugPause} : RecvStateSwitch("A", st)
  \/ ncmd < StopCmds /\ RecvCallStack("A")
  \/ ncmd < StopCmds /\ RecvStopDebugging("A")
  \/ ncmd < StopCmds /\ RecvDisconnect("A")
  \/ SwitchFlag \/ SwitchNotify \/ RemoveClient \/ StopState \/ StopFlag
  \/ StopNotify \/ StopLock \/ StopPred \/ StopBlock \/ Destroy
  \/ CvWake("interp") \/ CvWake("net")

SpecStop == Init /\ [][NextStop]_vars

\* both threads keep running while they have a step to take
FairSpecStop == SpecStop /\ WF_vars(InterpStep) /\ WF_vars(NetStep)

\* Two sessions served by the one interpreter thread.
NextTwo ==
  \/ nev < TwoEvents /\ \E p \in Plugins, l \in Lines : LineEvent(p, l, 1)
  \/ DhSkip \/ DhPassEnd \/ HookEntry \/ HookReturn \/ HookReset \/ HookFile
  \/ HookStepOut \/ HookBranch \/ HookBp \/ HookStepOver \/ HookLast
  \/ WwTest \/ WwLock \/ WwPred \/ WwBlock \/ WwDead
  \/ Accept(2)
  \/ ncmd < TwoCmds /\ \E s \in Sessions : RecvBreakpoint(s, NameT, 1)
  \/ ncmd < TwoCmds /\ \E s \in Sessions, st \in {DebugRun, DebugPause} :
                         RecvStateSwitch(s, st)
  \/ SwitchFlag \/ SwitchNotify
  \/ CvWake("interp")

SpecTwo == Init /\ [][NextTwo]_vars

\* Breakpoint bookkeeping of one session: SetBreakpoint, ClearBreakpoints
\* and RequestFile frames against the line events of two plugins.
NextBp ==
  \/ nev < BpEvents /\ \E p \in Plugins, l \in Lines : LineEvent(p, l, 1)
  \/ DhSkip \/ DhPassEnd \/ HookEntry \/ HookReturn \/ HookReset \/ HookFile
  \/ HookStepOut \/ HookBranch \/ HookBp \/ HookStepOver \/ HookLast
  \/ WwTest \/ WwLock \/ WwPred \/ WwBlock \/ WwDead
  \/ Accept(1)
  \/ ncmd < BpCmds /\ \E p \in Paths, l \in Lines : RecvBreakpoint("A", p, l)
  \/ ncmd < BpCmds /\ \E p \in Paths : RecvClearBreakpoints("A", p)
  \/ ncmd < BpCmds /\ \E p \in Paths : RecvDebugFile("A", p)
  \/ ncmd < BpCmds /\ RecvStateSwitch("A", DebugRun)
  \/ SwitchFlag \/ SwitchNotify
  \/ CvWake("interp")

SpecBp == Init /\ [][NextBp]_vars

\* The message codec: frames built by the server and read by the client,
\* frames built by the client.
NextCodec ==
  \/ SendHasStopped \/ SendCallStack \/ SendVariables \/ SendEvaluate
  \/ SendSetVariable
  \/ ReadMessages
  \/ ReadChunk
  \/ ClientSend

SpecCodec == Init /\ [][NextCodec]_vars

\* The inbound byte stream of one connection, cut into reads in every way.
NextRecv ==
  \/ Accept(1)
  \/ ClientWrite
  \/ DoRead("A")
  \/ StopState \/ StopFlag \/ StopNotify \/ StopLock \/ StopPred \/ StopBlock

SpecRecv == Init /\ [][NextRecv]_vars

\* Events of one plugin offered to two sessions.
NextDeliver ==
  \/ nev < DeliverEvents /\ LineEvent("P1", 1, 1)
  \/ nev < DeliverEvents /\ ErrorEvent("P1")
  \/ DhSkip \/ DhPassEnd \/ HookEntry \/ HookReturn \/ HookReset \/ HookFile
  \/ HookStepOut \/ HookBranch \/ HookBp \/ HookStepOver \/ HookLast
  \/ ReportEntry \/ ReportState \/ ReportReturn
  \/ WwTest \/ WwLock \/ WwPred \/ WwBlock \/ WwDead
  \/ Accept(2)
  \/ ncmd < DeliverCmds /\ \E s \in Sessions : RecvBreakpoint(s, NameT, 2)
  \/ ncmd < DeliverCmds /\ \E s \in Sessions : RecvStateSwitch(s, DebugRun)
  \/ SwitchFlag \/ SwitchNotify
  \/ CvWake("interp")

SpecDeliver == Init /\ [][NextDeliver]_vars

\* Requests of the client of a session that stops at a breakpoint.
NextReq ==
  \/ nev < ReqEvents /\ LineEvent("P1", 1, 1)
  \/ DhSkip \/ DhPassEnd \/ HookEntry \/ HookReturn \/ HookReset \/ HookFile
  \/ HookStepOut \/ HookBranch \/ HookBp \/ HookStepOver \/ HookLast
  \/ WwTest \/ WwLock \/ WwPred \/ WwBlock \/ WwDead
  \/ Accept(1)
  \/ cmds = <<>> /\ RecvBreakpoint("A", NameT, 1)
  \/ ClientRequests
  \/ DoRead("A")
  \/ RemoveClient \/ StopState \/ StopFlag
  \/ StopNotify \/ StopLock \/ StopPred \/ StopBlock \/ Destroy
  \/ CvWake("interp") \/ CvWake("net")

SpecReq == Init /\ [][NextReq]_vars

\* A handler throws while a second session is registered.
NextThrow ==
  \/ nev < ThrowEvents /\ LineEvent("P1", 1, 1)
  \/ nev < ThrowEvents /\ ErrorEvent("P1")
  \/ DhSkip \/ DhPassEnd \/ HookEntry \/ HookReturn \/ HookReset \/ HookFile
  \/ HookStepOut \/ HookBranch \/ HookBp \/ HookStepOver \/ HookLast
  \/ ReportEntry \/ ReportState \/ ReportReturn
  \/ WwTest \/ WwLock \/ WwPred \/ WwBlock \/ WwDead
  \/ UseAfterFree
  \/ Accept(2)
  \/ ncmd < ThrowCmds /\ RecvBreakpoint("A", NameT, 1)
  \/ ncmd < ThrowCmds /\ DataCallbackCatch("A")
  \/ RemoveClient \/ StopState \/ StopFlag
  \/ StopNotify \/ StopLock \/ StopPred \/ StopBlock \/ Destroy
  \/ CvWake("interp") \/ CvWake("net")

SpecThrow == Init /\ [][NextThrow]_vars

\* both threads keep running while they have a step to take
FairSpecThrow == SpecThrow /\ WF_vars(InterpStep) /\ WF_vars(NetStep)

\* The ways a connection ends: a Disconnect frame, alone in its read or
\* behind another frame, and a failed read.
NextClose ==
  \/ nev < CloseEvents /\ \E l \in Lines : LineEvent("P1", l, 1)
  \/ nev < CloseEvents /\ ErrorEvent("P1")
  \/ DhSkip \/ DhPassEnd \/ HookEntry \/ HookReturn \/ HookReset \/ HookFile
  \/ HookStepOut \/ HookBranch \/ HookBp \/ HookStepOver \/ HookLast
  \/ ReportEntry \/ ReportState \/ ReportReturn
  \/ WwTest \/ WwLock \/ WwPred \/ WwBlock \/ WwDead
  \/ UseAfterFree
  \/ Accept(1)
  \/ ncmd < CloseCmds /\ RecvBreakpoint("A", NameT, 1)
  \/ ncmd < CloseCmds /\ RecvStateSwitch("A", DebugRun)
  \/ ncmd < CloseCmds /\ \E cause \in {"read5", "error"} :
                           SafeRemoveClient("A", cause)
  \/ ncmd < CloseCmds /\ RecvDisconnect("A")
  \/ SwitchFlag \/ SwitchNotify \/ RemoveClient \/ StopState \/ StopFlag
  \/ StopNotify \/ StopLock \/ StopPred \/ StopBlock \/ Destroy
  \/ CvWake("interp") \/ CvWake("net")

SpecClose == Init /\ [][NextClose]_vars

\* both threads keep running while they have a step to take
FairSpecClose == SpecClose /\ WF_vars(InterpStep) /\ WF_vars(NetStep)

\* check_timeout, 145-192, run by the timer of the session after more than
\* ten seconds without a read: send(ping) and the timer is armed again
CheckTimeout(s) ==
  /\ CanRecv(s)
  /\ rx.end = "none"
  /\ Cardinality({i \in DOMAIN out[s] : out[s][i] = "Ping"}) < MaxPings
  /\ out' = Upd(out, s, Append(out[s], "Ping"))
  /\ UNCHANGED <<clients, nconn, alive, current_state, receive_walk_cmd,
                 unload, context_, current_image, images, lastfrm_, frm_,
                 break_list, files, debug_iter, mtx, cvWaiters, lastline,
                 interpVars, netVars, nev, ncmd, histVars, codec, rx,
                 envVars>>

\* the bytes TcpSession::send is given for an entry of out: the frames of
\* the builders, the ping of check_timeout (169) and the acknowledgement of
\* the five-byte read (227-228)
WireOf(o) ==
  CASE o = "Breakpoint" ->
         ServerFrame(HasStopped,
                     HasStoppedFields(<<66, 114, 101, 97, 107, 112, 111, 105,
                                        110, 116>>, <<78, 47, 65>>))
    [] o = "exception" ->
         ServerFrame(HasStopped,
                     HasStoppedFields(<<101, 120, 99, 101, 112, 116, 105,
                                        111, 110>>, <<65>>))
    [] o = "CallStack.empty" -> ServerFrame(CallStack, CallStackFields(<<>>))
    [] o \in {"CallStack.fresh", "CallStack.error"} ->
         ServerFrame(CallStack,
                     CallStackFields(<<[name |-> <<65>>, filename |-> <<116>>,
                                        line |-> 0]>>))
    [] o = "Variables" -> ServerFrame(Variables, VariablesFields(<<118>>, <<>>))
    [] o = "Evaluate" ->
         ServerFrame(Evaluate,
                     VariableFields([name |-> <<118>>, value |-> <<65>>,
                                     type |-> <<>>]))
    [] o = "SetVariable" -> ServerFrame(SetVariable, SetVariableFields(TRUE))
    [] o = "Ping" -> <<192>>
    [] o = "DisconnectAck" -> <<209, 1>>

\* everything sent on the connection of session s, in order
RECURSIVE WireOfAll(_)
WireOfAll(os) ==
  IF os = <<>> THEN <<>> ELSE WireOf(Head(os)) \o WireOfAll(Tail(os))

\* What the server writes: responses, stops, pings and acknowledgements.
NextTx ==
  \/ nev < TxEvents /\ LineEvent("P1", 1, 1)
  \/ DhSkip \/ DhPassEnd \/ HookEntry \/ HookReturn \/ HookReset \/ HookFile
  \/ HookStepOut \/ HookBranch \/ HookBp \/ HookStepOver \/ HookLast
  \/ WwTest \/ WwLock \/ WwPred \/ WwBlock \/ WwDead
  \/ Accept(1)
  \/ cmds = <<>> /\ RecvBreakpoint("A", NameT, 1)
  \/ ClientWrites({sendRequestCallStack, sendContinue,
                   sendRequestVariables(NameV)})
  \/ DoRead("A")
  \/ CheckTimeout("A")
  \/ RemoveClient \/ StopState \/ StopFlag
  \/ StopNotify \/ StopLock \/ StopPred \/ StopBlock \/ Destroy
  \/ CvWake("interp")

SpecTx == Init /\ [][NextTx]_vars

\* Events of a plugin with two files, offered to a session that may have
\* both of them attached.
NextOnce ==
  \/ nev < OnceEvents /\ \E l \in Lines : LineEvent("P3", l, 1)
  \/ nev < OnceEvents /\ ErrorEvent("P3")
  \/ DhSkip \/ DhPassEnd \/ HookEntry \/ HookReturn \/ HookReset \/ HookFile
  \/ HookStepOut \/ HookBranch \/ HookBp \/ HookStepOver \/ HookLast
  \/ ReportEntry \/ ReportState \/ ReportReturn
  \/ WwTest \/ WwLock \/ WwPred \/ WwBlock \/ WwDead
  \/ Accept(1)
  \/ ncmd < OnceCmds /\ \E f \in FileNames : RecvBreakpoint("A", f, 1)
  \/ ncmd < OnceCmds /\ RecvStateSwitch("A", DebugRun)
  \/ SwitchFlag \/ SwitchNotify
  \/ CvWake("interp")

SpecOnce == Init /\ [][NextOnce]_vars

\* Socket.destroy() of socket k: nothing on a destroyed socket; otherwise
\* the socket is destroyed and emits 'close' with hadError false
destroy(c, k) ==
  IF c.sockets[k] = "destroyed" THEN c
  ELSE [c EXCEPT !.sockets[k] = "destroyed",
                 !.events = Append(@, [sock |-> k, ev |-> "close",
                                       hadError |-> FALSE])]

\* connect(), part_000 241-364: destroys the socket it has, creates a new
\* one and starts connecting
connect(c) ==
  LET d == IF c.sock # 0 THEN destroy(c, c.sock) ELSE c
  IN [d EXCEPT !.sockets = Append(@, "connecting"),
               !.sock = Len(d.sockets) + 1,
               !.connected = FALSE]

\* tryReconnect(), 369-383: below MAX_RETRIES a timer after
\* RETRY_DELAY * 2^connectionRetries, else the counter is reset
tryReconnect(c) ==
  IF c.connectionRetries < MAX_RETRIES
  THEN LET delay == RETRY_DELAY * 2 ^ c.connectionRetries
       IN [c EXCEPT !.timers = Append(@, [due |-> c.now + delay,
                                          delay |-> delay]),
                    !.delays = Append(@, delay)]
  ELSE [c EXCEPT !.connectionRetries = 0]

\* the 'error' handler, 330-342: destroys the module's socket and tries to
\* reconnect
OnError(c) ==
  IF c.sock # 0
  THEN tryReconnect([destroy(c, c.sock) EXCEPT !.connected = FALSE])
  ELSE c

\* the 'close' handler, 344-363: destroys the module's socket and tries to
\* reconnect when the close came with an error
OnClose(c, hadError) ==
  IF c.sock # 0
  THEN LET d == [destroy(c, c.sock) EXCEPT !.connected = FALSE]
       IN IF hadError THEN tryReconnect(d) ELSE d
  ELSE c

ServerSide == <<clients, nconn, sessVars, lastline, interpVars, netVars,
                nev, ncmd, histVars, codec, rx, listener, server>>

\* the user starts a connection: connect() with nothing pending
UserConnect ==
  /\ extension.sock = 0
  /\ extension' = connect(extension)
  /\ UNCHANGED ServerSide

\* the server is unreachable: the connecting socket k fails, is destroyed
\* with the error and emits 'error', then 'close' with hadError true
ConnectFails(k) ==
  /\ k \in DOMAIN extension.sockets
  /\ extension.sockets[k] = "connecting"
  /\ extension' =
       [extension EXCEPT
          !.sockets[k] = "destroyed",
          !.failures = @ + 1,
          !.events = @ \o <<[sock |-> k, ev |-> "error", hadError |-> TRUE],
                            [sock |-> k, ev |-> "close", hadError |-> TRUE]>>]
  /\ UNCHANGED ServerSide

\* the oldest pending event is handled
EmitEvent ==
  /\ extension.events # <<>>
  /\ LET e == Head(extension.events)
         c == [extension EXCEPT !.events = Tail(@)]
     IN extension' = IF e.ev = "error" THEN OnError(c)
                                       ELSE OnClose(c, e.hadError)
  /\ UNCHANGED ServerSide

\* the timer due first runs its callback, 374-377: connectionRetries++ and
\* connect(). Events already emitted are handled before a timer runs.
TimerFires(i) ==
  /\ i \in DOMAIN extension.timers
  /\ extension.events = <<>>
  /\ Len(extension.sockets) < MaxSockets
  /\ \A j \in DOMAIN extension.timers :
       /\ extension.timers[j].due >= extension.timers[i].due
       /\ extension.timers[j].due = extension.timers[i].due => j >= i
  /\ LET t == extension.timers[i]
         c == [extension EXCEPT
                 !.timers = SubSeq(@, 1, i - 1) \o SubSeq(@, i + 1, Len(@)),
                 !.now = t.due,
                 !.connectionRetries = @ + 1,
                 !.attempts = @ + 1]
     IN extension' = connect(c)
  /\ UNCHANGED ServerSide

\* The client against a server that stays unreachable.
NextRetry ==
  \/ UserConnect
  \/ \E k \in 1..MaxSockets : ConnectFails(k)
  \/ EmitEvent
  \/ \E i \in 1..(2 * MaxSockets) : TimerFires(i)

SpecRetry == Init /\ [][NextRetry]_vars

ClientSide == <<clients, nconn, sessVars, lastline, interpVars, netVars,
                nev, ncmd, histVars, codec, rx, listener, extension>>

\* debugThread up to its loop. First definition: checkTimer->async_wait
\* (2033-2044), the acceptor (2046-2048), then the thread enters
\* while (true) and blocks in acceptor.accept (2054-2059). Second
\* definition: acceptConnection() starts async_accept (3417-3419, 3471) and
\* the thread enters io_context.run() (3473-3476)
debugThread(impl) ==
  /\ server.pc = "off"
  /\ server' = IF impl = 1
               THEN [server EXCEPT !.impl = 1, !.pc = "accept",
                                   !.pending = {<<"checkTimer", 0>>}]
               ELSE [server EXCEPT !.impl = 2, !.pc = "run",
                                   !.pending = {<<"async_accept", 0>>}]
  /\ UNCHANGED ClientSide

\* one turn of while (true), 2054-2162: accept returns with a connection,
\* the session is created and registered, TcpSession::start (47-79) runs
\* check_timeout once, which starts timer_->async_wait (186-191), and
\* do_read, which starts async_read_some (202-203); the thread is back in
\* accept. No statement leaves the loop: io_context.run() at 2164 follows
\* it.
AcceptLoop ==
  /\ server.pc = "accept"
  /\ server.conns < MaxConns
  /\ LET n == server.conns + 1
     IN server' = [server EXCEPT
                     !.conns = n,
                     !.pending = @ \cup {<<"timer_", n>>,
                                         <<"async_read_some", n>>}]
  /\ UNCHANGED ClientSide

\* the client of connection n writes bytes
ClientSends(n) ==
  /\ n \in 1..server.conns
  /\ server.sent[n] < MaxWrites
  /\ server' = [server EXCEPT !.sent[n] = @ + 1]
  /\ UNCHANGED ClientSide

\* an operation is complete: a read when unread bytes have arrived, an
\* accept when a client connects, a timer when its time has passed
Ready(op) ==
  CASE op[1] = "async_read_some" -> server.read[op[2]] < server.sent[op[2]]
    [] op[1] = "async_accept" -> server.conns < MaxConns
    [] OTHER -> TRUE

\* io_context.run() executes the handler of a complete operation. Read
\* handlers pass the bytes to RecvCmd and start the next read (3427-3444,
\* 204-263); the accept handler of the second definition starts the first
\* read of the connection and the next accept (3419-3468); timer handlers
\* start their timer again (186-191, 2017-2029).
RunHandler(op) ==
  /\ server.pc = "run"
  /\ op \in server.pending
  /\ Ready(op)
  /\ server' =
       CASE op[1] = "async_read_some" ->
              [server EXCEPT !.read[op[2]] = server.sent[op[2]],
                             !.done = @ \cup {op}]
         [] op[1] = "async_accept" ->
              [server EXCEPT
                 !.conns = @ + 1,
                 !.pending = @ \cup {<<"async_read_some", server.conns + 1>>},
                 !.done = @ \cup {op}]
         [] OTHER -> [server EXCEPT !.done = @ \cup {op}]
  /\ UNCHANGED ClientSide

Operations ==
  {<<"checkTimer", 0>>, <<"async_accept", 0>>}
  \cup {<<k, n>> : k \in {"timer_", "async_read_some"}, n \in 1..MaxConns}

\* debugThread of either definition and the clients that connect to it.
NextLoop ==
  \/ \E impl \in {1, 2} : debugThread(impl)
  \/ AcceptLoop
  \/ \E n \in 1..MaxConns : ClientSends(n)
  \/ \E op \in Operations : RunHandler(op)

SpecLoop == Init /\ [][NextLoop]_vars

\* debugThread is a thread of its own and is always scheduled: it takes
\* every step it can take.
FairSpecLoop ==
  /\ SpecLoop
  /\ WF_vars(AcceptLoop)
  /\ \A op \in Operations : WF_vars(RunHandler(op))

\* The five walk commands of the client, read by the server.
NextAgree ==
  \/ Accept(1)
  \/ ClientWrites({sendPause, sendContinue, sendStepIn, sendStepOver,
                   sendStepOut})
  \/ DoRead("A")
  \/ StopFlag \/ StopNotify \/ StopLock \/ StopPred \/ StopBlock

SpecAgree == Init /\ [][NextAgree]_vars

\* walk frames with any state byte behind the type: bytes the client
\* appends (0, 2, 4), a byte no DebugState has (9) and the byte of the
\* char -1 (255)
WalkFrames ==
  {sendMessage(type, <<>>, byte) :
     type \in {Pause, Continue, StepIn, StepOver, StepOut},
     byte \in {0, 2, 4, 9, 255}}

\* Walk commands of a client, with the line events of the plugin.
NextWalk ==
  \/ nev < WalkEvents /\ LineEvent("P1", 1, 1)
  \/ DhSkip \/ DhPassEnd \/ HookEntry \/ HookReturn \/ HookReset \/ HookFile
  \/ HookStepOut \/ HookBranch \/ HookBp \/ HookStepOver
  \/ HookAfterStepOver \/ HookLast
  \/ WwTest \/ WwLock \/ WwPred \/ WwBlock \/ WwDead
  \/ Accept(1)
  \/ ClientWrites(WalkFrames)
  \/ DoRead("A")
  \/ CvWake("interp")

SpecWalk == Init /\ [][NextWalk]_vars

\* Extension::SDK_OnUnload, part_002 178-206, called by the host on the
\* interpreter thread between two events: it puts the original debug
\* listener back and does nothing else
SDK_OnUnload ==
  /\ ipc = "idle"
  /\ listener = "DebugListener"
  /\ listener' = "original"
  /\ UNCHANGED <<extension, server>>
  /\ UNCHANGED <<clients, nconn, sessVars, lastline, interpVars, netVars,
                 nev, ncmd, histVars, codec, rx>>

\* The extension is unloaded while a client stays connected; the break
\* handler stays installed, the listener does not.
NextUnload ==
  \/ nev < UnloadEvents /\ LineEvent("P1", 1, 1)
  \/ nev < UnloadEvents /\ listener = "DebugListener" /\ ErrorEvent("P1")
  \/ DhSkip \/ DhPassEnd \/ HookEntry \/ HookReturn \/ HookReset \/ HookFile
  \/ HookStepOut \/ HookBranch \/ HookBp \/ HookStepOver \/ HookLast
  \/ ReportEntry \/ ReportState \/ ReportReturn
  \/ WwTest \/ WwLock \/ WwPred \/ WwBlock \/ WwDead
  \/ listener = "DebugListener" /\ Accept(1)
  \/ ncmd < UnloadCmds /\ RecvBreakpoint("A", NameT, 1)
  \/ ncmd < UnloadCmds /\ RecvStateSwitch("A", DebugRun)
  \/ SwitchFlag \/ SwitchNotify
  \/ CvWake("interp")
  \/ SDK_OnUnload

SpecUnload == Init /\ [][NextUnload]_vars

FairSpecUnload == SpecUnload /\ WF_vars(InterpStep) /\ WF_vars(NetStep)

\* ================================================================= claims
\* C1: a thread blocked in WaitWalkCmd on a session for which stopDebugging
\* is then called by the network thread eventually leaves the wait, observes
\* Dead and unwinds its call (debugger_stopped reaches DebugHandler or the
\* host) when both threads are scheduled fairly.
C1_StopReleases ==
  (hk.stop /\ ipc = "ww_wait")
  ~> (ipc = "idle" /\ hostResult \in {"stopped", "exception"})

\* C2: no wake-up is lost: once a walk command received after the HasStopped
\* of a suspend has been processed (SwitchState has set receive_walk_cmd and
\* returned from notify_one), the interpreter thread is not blocked in the
\* cv.wait of that suspend, also when the command arrived between the
\* predicate check and the blocking.
C2_NoLostWakeup ==
  ~(/\ ipc = "ww_wait"
    /\ "interp" \in cvWaiters[isess]
    /\ hk.late
    /\ receive_walk_cmd[isess]
    /\ npc = "idle")

\* C3: whatever the interleaving of DebugHook with stopDebugging, the stop is
\* not overwritten (current_state stays Dead while stopDebugging runs) and
\* the hook's thread is not parked in cv.wait while stopDebugging itself
\* waits for unload.
C3_StopNotOverwritten ==
  \A s \in Sessions :
    (/\ InCall(s)
     /\ iev.kind = "line"
     /\ ncl = s
     /\ npc \in {"st_rwc", "st_notify", "st_lock", "st_pred", "st_block",
                 "st_wait"})
    => /\ current_state[s] = DebugDead
       /\ ~(Blocked(s) /\ npc = "st_wait")

\* C4: a session is never destroyed while the interpreter thread is still
\* blocked in the cv.wait of its WaitWalkCmd.
C4_NoDestroyWhileParked ==
  \A s \in Sessions :
    alive[s] = "destroyed"
    => ~Blocked(s)

\* C5: Dead is terminal: no step changes current_state of a session from Dead
\* to another state.
C5_DeadTerminal ==
  [][\A s \in Sessions :
       current_state[s] = DebugDead => current_state'[s] = DebugDead]_vars

\* C6: a line event at f:l that is not dropped as a repetition, reported to
\* a session that was in Run with a breakpoint registered at f:l and that no
\* command reached in the meantime, ends with the HasStopped of the
\* breakpoint branch sent exactly once.
C6_BreakpointStops ==
  \A s \in Sessions :
    (/\ InCall(s)
     /\ iev.kind = "line"
     /\ hk.entry = DebugRun
     /\ hk.hit
     /\ hk.dd = "act"
     /\ ~hk.raced
     /\ ipc \in {"h_so", "h_so2", "h_last", "h_ret"})
    => hk.branch = "bp" /\ hk.sent = 1

C8_PerSessionDedupe ==
  \A s \in Sessions :
    (/\ InCall(s)
     /\ iev.kind = "line"
     /\ nev = 1
     /\ hk.entry = DebugRun
     /\ hk.hit
     /\ hk.own # iev.line
     /\ \E a \in Sessions \ {s} :
          /\ BreakpointHit(a, FileOf(iev.ctx), iev.line)
          /\ current_state[a] = DebugRun
          /\ out[a] = <<"Breakpoint">>)
    => hk.dd # "dedupe"

\* C9: after a StepOver received while suspended at frame D, the first line
\* event that is not dropped as a repetition and whose frame is D or
\* shallower (frm >= D) suspends the session.
C9_StepOverStops ==
  \A s \in Sessions :
    (/\ InCall(s)
     /\ iev.kind = "line"
     /\ hk.entry = DebugStepOver
     /\ soD[s] > 0
     /\ iev.frm >= soD[s]
     /\ hk.dd = "act"
     /\ ~hk.raced
     /\ ipc = "h_ret")
    => hk.sent = 1

\* C10: a line event whose line differs from lastline, reported to a session
\* that was in Pause or StepIn and that no command reached before the
\* rendezvous, takes the stepping branch whatever the breakpoints and the
\* frame: it sends exactly one HasStopped, enters the rendezvous and leaves
\* it only with receive_walk_cmd set.
C10_StepSuspends ==
  \A s \in Sessions :
    (/\ InCall(s)
     /\ iev.kind = "line"
     /\ hk.entry \in {DebugPause, DebugStepIn}
     /\ hk.dd = "act"
     /\ ~hk.raced)
    => \/ ipc \in {"h_stepout", "h_branch"}
       \/ /\ hk.branch = "step"
          /\ hk.sent <= 1
          /\ hk.sent = 0 => (ipc = "ww_test" /\ iret = "h_so")
          /\ hk.sent = 1 => /\ hk.parked
                            /\ \/ InWait(s)
                               \/ receive_walk_cmd[s]

\* a session in StepIn is parked for an event of a deeper frame at a line
\* that holds no breakpoint
C10_Witness ==
  /\ ipc = "ww_wait"
  /\ "interp" \in cvWaiters["A"]
  /\ isess = "A"
  /\ hk.entry = DebugStepIn
  /\ ~hk.raced
  /\ hk.sent = 1
  /\ frm_["A"] < lastfrm_["A"]
  /\ ~BreakpointHit("A", ifile, iev.line)

C12_ErrorSuspends ==
  \A s \in Sessions :
    (InCall(s) /\ iev.kind = "error" /\ ~hk.raced)
    => \/ ipc = "r_state"
       \/ /\ hk.branch = "error"
          /\ hk.sent <= 1
          /\ hk.sent = 0 => (ipc = "ww_test" /\ current_state[s] = DebugException)
          /\ hk.sent = 1 => /\ hk.parked
                            /\ hk.reason = "exception"
                            /\ InWait(s) \/ receive_walk_cmd[s]

\* an error report is parked in Exception in a session whose last line event
\* left lastline and lastfrm_ set
C12_Witness ==
  /\ Blocked("A")
  /\ iev.kind = "error"
  /\ current_state["A"] = DebugException
  /\ hk.sent = 1
  /\ ~hk.raced
  /\ out["A"] = <<"exception">>
  /\ lastline > 0
  /\ lastfrm_["A"] > 0

\* C13: during the stop of an error report (after its HasStopped, before any
\* walk command or stop), the first RequestCallStack is answered from the
\* captured error iterator and leaves the state Breakpoint, and every later
\* one is answered from a fresh iterator: the captured iterator is walked
\* exactly once.
C13_ErrorStackOnce ==
  \A s \in Sessions :
    (/\ InCall(s)
     /\ iev.kind = "error"
     /\ ~hk.raced
     /\ ~hk.late
     /\ ncl # s
     /\ alive[s] = "live")
    => /\ hk.walks = IF hk.cs >= 1 THEN 1 ELSE 0
       /\ hk.cs >= 1 => current_state[s] = DebugBreakpoint
       /\ hk.cs = 1 => out[s][Len(out[s])] = "CallStack.error"
       /\ hk.cs >= 2 => out[s][Len(out[s])] = "CallStack.fresh"

\* two RequestCallStack were answered during one error stop
C13_Witness ==
  /\ Blocked("A")
  /\ iev.kind = "error"
  /\ hk.cs = 2
  /\ hk.walks = 1
  /\ out["A"] = <<"exception", "CallStack.error", "CallStack.fresh">>

\* C14 (as the code has it): a DebugHook call on a Dead session returns at
\* once; it records the calling context in context_, makes the image of that
\* context the current_image (loading it into images when it is not there
\* yet), and leaves frm_, lastfrm_, receive_walk_cmd, current_state,
\* break_list, files, the dedupe line and the outgoing messages unchanged.
C14_DeadHookRecordsContext ==
  [][(ipc = "dh_scan" /\ ipc' = "h_ret" /\ iev.kind = "line")
     => /\ context_' = Upd(context_, isess', iev.ctx)
        /\ current_image' = Upd(current_image, isess', iev.ctx)
        /\ images' = Upd(images, isess', images[isess'] \cup {iev.ctx})
        /\ current_state[isess'] = DebugDead
        /\ UNCHANGED <<frm_, lastfrm_, receive_walk_cmd, current_state,
                       break_list, files, lastline, out>>]_vars

\* C14 as stated: the call on a Dead session changes no field at all
C14_DeadHookNoEffect ==
  [][(ipc = "dh_scan" /\ ipc' = "h_ret" /\ iev.kind = "line")
     => UNCHANGED <<context_, current_image, images, frm_, lastfrm_,
                    receive_walk_cmd, current_state, break_list, files,
                    lastline, out>>]_vars

\* a call on a Dead session has returned and loaded an image on its way
C14_Witness ==
  /\ ipc = "h_ret"
  /\ iev.kind = "line"
  /\ hk.entry = DebugDead
  /\ hk.dd = "none"
  /\ current_state[isess] = DebugDead
  /\ images[isess] = {iev.ctx}


\* C15: a SetBreakpoint that repeats the file and line of the frame before
\* it changes nothing and leaves exactly one entry for the line in the line
\* set of the file; a ClearBreakpoints for a file that has no entry in
\* break_list leaves break_list unchanged (no entry is created).
C15_SetIdempotentClearAbsent ==
  [][cmds' # cmds =>
       LET new == cmds'[Len(cmds')]
           s == new[2]
           f == filename(new[3])
           l == new[4]
       IN /\ (/\ new[1] = "set"
              /\ cmds # <<>>
              /\ cmds[Len(cmds)][1] = "set"
              /\ cmds[Len(cmds)][2] = s
              /\ filename(cmds[Len(cmds)][3]) = f
              /\ cmds[Len(cmds)][4] = l)
             => /\ break_list' = break_list
                /\ Cardinality({x \in break_list'[s][f] : x = l}) = 1
          /\ (new[1] = "clear" /\ f \notin DOMAIN break_list[s])
             => break_list' = break_list]_vars

\* the same breakpoint was set twice in a row, then a file without an entry
\* was cleared
C15_Witness ==
  /\ Len(cmds) = 3
  /\ cmds[1] = <<"set", "A", NameT, 2>>
  /\ cmds[2] = <<"set", "A", NameT, 2>>
  /\ cmds[3] = <<"clear", "A", PathXT, 0>>
  /\ DOMAIN break_list["A"] = {NameT}
  /\ break_list["A"][NameT] = {2}

\* C16: a ClearBreakpoints frame for file f empties the line set of f and
\* changes nothing else: the line sets of the other files, the set of
\* attached files (f stays attached), the execution state and
\* receive_walk_cmd are as before.
C16_ClearFrame ==
  [][(cmds' # cmds /\ cmds'[Len(cmds')][1] = "clear") =>
       LET s == cmds'[Len(cmds')][2]
           f == filename(cmds'[Len(cmds')][3])
       IN /\ f \in DOMAIN break_list[s] => break_list'[s][f] = {}
          /\ DOMAIN break_list'[s] = DOMAIN break_list[s]
          /\ \A g \in DOMAIN break_list[s] \ {f} :
               break_list'[s][g] = break_list[s][g]
          /\ \A t \in Sessions \ {s} : break_list'[t] = break_list[t]
          /\ UNCHANGED <<files, current_state, receive_walk_cmd>>]_vars

\* a ClearBreakpoints emptied the lines of t while xt kept its breakpoint
\* and t stayed attached
C16_Witness ==
  /\ Len(cmds) = 3
  /\ cmds[3] = <<"clear", "A", NameT, 0>>
  /\ DOMAIN break_list["A"] = {NameT, NameXT}
  /\ break_list["A"][NameT] = {}
  /\ break_list["A"][NameXT] = {1}
  /\ files["A"] = {NameT, NameXT}

\* C17: every file with a non-empty line set in break_list of a session is
\* attached to it (is in files), and when a line event makes the session
\* enter Breakpoint the file whose line set was consulted is attached and
\* is the file the interpreter is executing (calls during which a frame of
\* the client changed files or break_list are left out).
C17_BreakOnlyInExecutedFile ==
  \A s \in Sessions :
    /\ \A f \in DOMAIN break_list[s] : break_list[s][f] # {} => f \in files[s]
    /\ (InCall(s) /\ iev.kind = "line" /\ hk.branch = "bp" /\ ~hk.raced)
       => (ifile \in files[s] /\ ifile = FileOf(iev.ctx))

\* C18: the names in files and the keys of break_list are lower-cased base
\* names, so that a breakpoint set through a path whose base name differs
\* from the file of a line event only in letter case is hit: a DebugHook
\* call that acts on a line of a Run session, undisturbed by client frames,
\* enters Breakpoint when some key equal to the executing file up to case
\* holds the line.
C18_CaseInsensitiveKeys ==
  \A s \in Sessions :
    /\ \A f \in files[s] \cup DOMAIN break_list[s] : f = lowercase(f)
    /\ (/\ InCall(s) /\ iev.kind = "line" /\ hk.entry = DebugRun
        /\ hk.dd = "act" /\ ~hk.raced /\ ~hk.late
        /\ ipc \in {"ww_test", "h_so", "h_last", "h_ret"}
        /\ \E k \in DOMAIN break_list[s] :
             /\ lowercase(k) = lowercase(FileOf(iev.ctx))
             /\ iev.line \in break_list[s][k])
       => hk.branch = "bp"

\* C19: round trip.  When the frame of a message built by the server has
\* been passed to readMessages, the result is exactly one Message, its type
\* is the type that was encoded, and reading its fields back with readInt
\* and readString gives the encoded integers and the encoded strings
\* (character for character, the terminating NUL stripped).
C19_RoundTrip ==
  codec.fed =>
    /\ Len(codec.list) = 1
    /\ codec.list[1].type = codec.type
    /\ readBack(codec.list[1], [i \in DOMAIN codec.fields |-> codec.fields[i].k])
       = [i \in DOMAIN codec.fields |-> codec.fields[i].v]

\* C20 (as the code has it): the length field of a client frame is the
\* number of bytes after it (type byte, extra byte and payload); the length
\* field of a server frame is the number of bytes after the type byte; and
\* readMessages takes the field in the server's meaning: one Message of that
\* size starting at offset 5, nothing left pending.
C20_FrameLengths ==
  /\ codec.cframe # <<>> => readUInt32LE(codec.cframe, 0) = Len(codec.cframe) - 4
  /\ codec.wire # <<>> => readUInt32LE(codec.wire, 0) = Len(codec.wire) - 5
  /\ codec.fed =>
       /\ Len(codec.list) = 1
       /\ codec.list[1].offset = 5
       /\ codec.list[1].size = Len(codec.list[1].buffer) - 5
       /\ codec.pendingBuffer = <<>>

\* C20 as stated: in the frames of both encoders the length field is the
\* number of bytes after it, and readMessages consumes that many bytes
\* after the field
C20_LengthCoversType ==
  /\ codec.cframe # <<>> => readUInt32LE(codec.cframe, 0) = Len(codec.cframe) - 4
  /\ codec.wire # <<>> => readUInt32LE(codec.wire, 0) = Len(codec.wire) - 4
  /\ codec.fed =>
       /\ Len(codec.list) = 1
       /\ codec.list[1].size = Len(codec.list[1].buffer) - 4

\* a client frame with payload exists and a server frame with fields was read
C20_Witness ==
  /\ codec.fed
  /\ Len(codec.list) = 1
  /\ codec.list[1].size > 0
  /\ Len(codec.cframe) > 5

\* C21: however the bytes of a server frame are cut into non-empty chunks,
\* the calls of readMessages on the chunks in order return, all together,
\* exactly one message, equal to the message encoded (type and fields read
\* back); while the frame is incomplete the calls return nothing and keep
\* the bytes pending, and the pending buffer is empty at the end.
C21_ChunkedDecode ==
  /\ (codec.wire # <<>> /\ codec.fedTo > 0)
     => /\ codec.list = <<>>
        /\ codec.pendingBuffer = SubSeq(codec.wire, 1, codec.fedTo)
  /\ codec.fed
     => /\ Len(codec.list) = 1
        /\ codec.pendingBuffer = <<>>
        /\ codec.list[1].type = codec.type
        /\ readBack(codec.list[1],
                    [i \in DOMAIN codec.fields |-> codec.fields[i].k])
           = [i \in DOMAIN codec.fields |-> codec.fields[i].v]

\* C22: the handler calls RecvCmd makes, and their arguments, do not depend
\* on how the bytes of the client's frames are cut into reads: once the
\* stream is consumed (or the connection ended) they are the calls made when
\* every frame arrives whole in a read of its own.
C22_ChunkIndependent ==
  (rx.stream # <<>> /\ (rx.pos = Len(rx.stream) \/ rx.end # "none"))
  => LET ref == EachWhole(rx.frames, RxState0)
     IN rx.calls = ref.calls /\ rx.end = ref.end

\* C23: a frame of a type without a case, read by RecvCmd, is skipped whole:
\* alone it calls no handler and leaves the session as it was; followed by
\* another frame in the same read, the calls and the session afterwards are
\* those of the following frame alone.
C23_UnknownSkipped ==
  (Len(rx.reads) = 1 /\ rx.pos = Len(rx.stream) /\ Len(rx.stream) # 5
   /\ IsUnknown(rx.frames[1]))
  => LET ref == RecvCmdLoop(Concat(Tail(rx.frames)), 0, RxState0)
     IN /\ rx.calls = ref.calls
        /\ rx.end = ref.end
        /\ rx.end = "none"
           => /\ current_state["A"] = ref.current_state
              /\ receive_walk_cmd["A"] = ref.receive_walk_cmd
              /\ files["A"] = ref.files
              /\ break_list["A"] = ref.break_list
              /\ out["A"] = ref.out

\* C24: once the server has been handed a Disconnect message of session A
\* (recvDisconnect, or the read of five bytes the frame makes when it arrives
\* alone), the session leaves the registry clients and the interpreter
\* thread is not left blocked in the cv.wait of that session.
C24_DisconnectRemoves ==
  (\E i \in DOMAIN cmds : cmds[i][1] \in {"recvDisconnect", "read5"})
  ~> (~InRegistry("A") /\ ~Blocked("A"))

\* C25: no debugger_stopped leaves the entry points of the host: when the
\* session a line event or an error report is suspended in is cancelled by
\* StopDebugging or Disconnect, DebugHandler and DebugReport::ReportError
\* return normally.
C25_NoExceptionToHost == hostResult # "exception"

\* C26: the registry is changed only while the interpreter thread is outside
\* DebugHandler and DebugReport::ReportError: no step of addClientID or of an
\* erase from clients is taken while that thread iterates over clients or is
\* inside a call on a session taken from it.
C26_RegistryExclusive ==
  [][clients' # clients => ipc = "idle"]_vars

\* C27: when DebugHandler or DebugReport::ReportError has returned to the
\* host, every session that matched the event when it arrived (by context,
\* or by a file of the plugin) and is still registered has had its DebugHook
\* or ReportError called for that event; the call on one session does not
\* take the event away from another.
C27_EveryMatchDelivered ==
  (ipc = "idle" /\ hostResult # "none")
  => \A s \in iev.want :
       (InRegistry(s) /\ alive[s] = "live") => s \in iev.got

\* C28: a failed read on the connection of session A leads to the removal of
\* A from the registry, and at the step that removes A the interpreter
\* thread is no longer blocked in the cv.wait of A.
C28_ReadErrorRemoves ==
  /\ (\E i \in DOMAIN cmds : cmds[i][1] = "error") ~> ~InRegistry("A")
  /\ [][((\E i \in DOMAIN cmds : cmds[i][1] = "error")
         /\ InRegistry("A") /\ ~InRegistry("A")')
        => ~Blocked("A")]_vars

\* C29: an exception thrown by a handler under RecvCmd of session A ends in
\* the teardown of A and of A only: A becomes Dead and leaves the registry,
\* and no step after it takes session B out of the registry.
C29_ExceptionTearsDown ==
  /\ (\E i \in DOMAIN cmds : cmds[i][1] = "exception")
     ~> (~InRegistry("A") /\ current_state["A"] = DebugDead)
  /\ [][((\E i \in DOMAIN cmds : cmds[i][1] = "exception") /\ InRegistry("B"))
        => InRegistry("B")']_vars

\* C30: when the frames of the client have been read and the session is
\* still connected, the frames the server has sent in answer are exactly one
\* per request, of the type of the request and in the order of the requests
\* (CallStack, Variables, Evaluate, SetVariable), whatever the execution
\* state and whether or not the symbol named resolves.
C30_OneResponseEach ==
  (rx.stream # <<>> /\ rx.pos = Len(rx.stream) /\ rx.end = "none")
  => LET asked == SelectSeq(rx.frames, LAMBDA f : Expected(f) # "none")
         sent == SelectSeq(out["A"],
                           LAMBDA o : o \notin {"Breakpoint", "exception"})
     IN /\ Len(sent) = Len(asked)
        /\ \A i \in 1..Len(asked) : TypeOf(sent[i]) = Expected(asked[i])

\* C31: once SDK_OnUnload has run, eventually no session is left in the
\* registry, every session object is destroyed and no interpreter thread is
\* parked in a rendezvous.
C31_UnloadDestroys ==
  (listener = "original")
  ~> (\A s \in Sessions :
        ~InRegistry(s) /\ alive[s] # "live" /\ ~Blocked(s))

\* C32: in every reachable state the current_state of every session is one
\* of the eight values of DebugState, whatever state byte a Pause, Continue,
\* StepIn, StepOver or StepOut frame carried.
C32_StateInEnum ==
  \A s \in Sessions :
    current_state[s] \in {DebugDead, DebugRun, DebugBreakpoint, DebugPause,
                          DebugStepIn, DebugStepOver, DebugStepOut,
                          DebugException}

\* C33 (as amended): the interpreter thread waits for another thread only
\* inside WaitWalkCmd, at the acquisition of the session mutex (1290) and at
\* the condition-variable wait (1291); at every other point of DebugHandler,
\* DebugHook and DebugReport::ReportError it has a step to take whatever the
\* network thread holds.
C33_BlocksOnlyInWaitWalkCmd ==
  (ipc \notin {"idle", "crashed", "ww_lock", "ww_wait"}) => ENABLED InterpStep

\* C33, witness: the thread is inside a call, outside WaitWalkCmd, while the
\* network thread holds the mutex of the session the call is on.
C33_Witness ==
  /\ ipc \notin {"idle", "crashed", "ww_lock", "ww_wait"}
  /\ isess # NoSession
  /\ mtx[isess] = "net"

\* C33 (as stated): the only point at which the interpreter thread waits for
\* another thread is the condition-variable wait; it never waits to acquire
\* a lock the network thread holds.
C33_BlocksOnlyInCvWait ==
  (ipc \notin {"idle", "crashed", "ww_wait"}) => ENABLED InterpStep

\* C34: every call of stopDebugging eventually returns: whenever the
\* network thread is inside stopDebugging (1508-1513), it eventually is
\* outside it, when both threads are scheduled fairly.
C34_StopReturns ==
  (npc \in {"st_rwc", "st_notify", "st_lock", "st_pred", "st_block",
            "st_wait"})
  ~> (npc \notin {"st_rwc", "st_notify", "st_lock", "st_pred", "st_block",
                  "st_wait"})

\* C35: a read that delivers exactly one RequestCallStack frame (five bytes:
\* length and type, no payload) is dispatched to RecvCallStack and does not
\* close the connection or stop the session.
C35_FiveByteFrameDispatched ==
  (/\ rx.reads # <<>>
   /\ rx.reads[1] = 5
   /\ rx.frames[1] = sendRequestCallStack)
  => /\ rx.calls # <<>>
     /\ rx.calls[1].h = "RecvCallStack"
     /\ rx.end # "close"
     /\ current_state["A"] # DebugDead

\* C36: the bytes the server has sent on a connection, taken together, are
\* whole frames: the decoder of the client splits them into messages with no
\* byte left over, each with a type of the MessageType enumeration.
C36_OnlyWholeFrames ==
  \A s \in Sessions :
    LET r == readLoop(WireOfAll(out[s]), <<>>)
    IN /\ r.pendingBuffer = <<>>
       /\ \A i \in DOMAIN r.list : r.list[i].type \in 0..Disconnect

\* C37: one interpreter event makes a session stop at most once: of the
\* messages sent to a session since the current (or last) event arrived, at
\* most one is a HasStopped.
C37_OneStopPerEvent ==
  \A s \in Sessions :
    Cardinality({i \in DOMAIN out[s] :
                   /\ i > iev.base[s]
                   /\ out[s][i] \in {"Breakpoint", "exception"}}) <= 1

\* C38: the client and the server give every message type the same number,
\* and when the walk commands the client wrote have all been processed the
\* session is in the state the last of them is meant to select: Pause in
\* Pause, Continue in Run, StepIn in StepIn, StepOver in StepOver, StepOut
\* in StepOut.
C38_ConstantsAgree ==
  /\ Len(ClientMessageType) = Len(ServerMessageType)
  /\ \A i \in DOMAIN ClientMessageType :
       /\ \E j \in DOMAIN ServerMessageType :
            ServerMessageType[j] = ClientMessageType[i]
       /\ EnumValue(ServerMessageType, ClientMessageType[i])
          = EnumValue(ClientMessageType, ClientMessageType[i])
  /\ (rx.reads # <<>> /\ rx.end = "none" /\ rx.pos = Len(rx.stream))
     => LET type == rx.frames[Len(rx.frames)][5]
        IN current_state["A"] =
             CASE type = Pause -> DebugPause
               [] type = Continue -> DebugRun
               [] type = StepIn -> DebugStepIn
               [] type = StepOver -> DebugStepOver
               [] type = StepOut -> DebugStepOut

\* C38, witness: a StepOver of the client has been processed and the session
\* is in StepOver.
C38_Witness ==
  /\ rx.frames # <<>>
  /\ rx.frames[Len(rx.frames)] = sendStepOver
  /\ rx.end = "none"
  /\ rx.pos = Len(rx.stream)
  /\ rx.calls # <<>>
  /\ current_state["A"] = DebugStepOver

\* C39: against a server that stays unreachable the client makes at most
\* MAX_RETRIES reconnect attempts after the user's connect, schedules them
\* with the delays 1000, 2000 and 4000 ms, and no failure leaves more than
\* one attempt scheduled.
C39_ReconnectBounded ==
  /\ extension.attempts <= MAX_RETRIES
  /\ \A i \in DOMAIN extension.delays :
       i <= MAX_RETRIES /\ extension.delays[i] = RETRY_DELAY * 2 ^ (i - 1)
  /\ Len(extension.timers) <= 1

\* C40: in the TcpSession-based server loop the bytes a client has sent on
\* an accepted connection are eventually read and passed to RecvCmd, and the
\* timers started on the io_context (the inactivity check and each
\* session's timeout check) eventually fire.
C40_InboundDispatched ==
  /\ \A n \in 1..MaxConns :
       (server.impl = 1 /\ server.sent[n] > 0) ~> (server.read[n] > 0)
  /\ \A op \in Operations :
       (server.impl = 1 /\ op \in server.pending
          /\ op[1] \in {"checkTimer", "timer_"})
       ~> (op \in server.done)

====
